---- MODULE Spec2Model ----
(***************************************************************************)
(* A model of the interaction layer of QGLViewer (qglviewer.cpp): the      *)
(* mouse binding tables (mouseBinding_, wheelBinding_, clickBinding_) with *)
(* their setters and queries, the mouse event dispatcher (press / move /   *)
(* release / wheel / double click) with the mouse grabber, the selection,  *)
(* the camera path keys, and the persistence of the viewer state           *)
(* (domElement, initFromDOMElement, the state file) with domUtils.h.       *)
(***************************************************************************)
EXTENDS Integers, Sequences, FiniteSets, TLC

(***************************************************************************)
(* Qt::ButtonState values (Qt 3): a bit set of mouse buttons and state     *)
(* keys.                                                                   *)
(***************************************************************************)
NoButton == 0
LeftButton == 1
RightButton == 2
MidButton == 4
MouseButtonMask == 7
ShiftButton == 256
ControlButton == 512
AltButton == 1024
KeyButtonMask == 3840

\* The C++ operators &, | and (~x & y) on non-negative ints.
RECURSIVE BitAnd(_, _)
BitAnd(x, y) ==
    IF x = 0 \/ y = 0 THEN 0
    ELSE ((x % 2) * (y % 2)) + 2 * BitAnd(x \div 2, y \div 2)

BitOr(x, y) == x + y - BitAnd(x, y)

BitAndNot(x, y) == x - BitAnd(x, y)

\* enum MouseHandler { CAMERA, FRAME }
CAMERA == 0
FRAME == 1
MouseHandlers == {CAMERA, FRAME}

\* enum MouseAction
NO_MOUSE_ACTION == "NO_MOUSE_ACTION"
ROTATE == "ROTATE"
ZOOM == "ZOOM"
TRANSLATE == "TRANSLATE"
MOVE_FORWARD == "MOVE_FORWARD"
LOOK_AROUND == "LOOK_AROUND"
MOVE_BACKWARD == "MOVE_BACKWARD"
SCREEN_ROTATE == "SCREEN_ROTATE"
ROLL == "ROLL"
SCREEN_TRANSLATE == "SCREEN_TRANSLATE"
ZOOM_ON_REGION == "ZOOM_ON_REGION"
MouseActions ==
    {NO_MOUSE_ACTION, ROTATE, ZOOM, TRANSLATE, MOVE_FORWARD, LOOK_AROUND,
     MOVE_BACKWARD, SCREEN_ROTATE, ROLL, SCREEN_TRANSLATE, ZOOM_ON_REGION}

\* enum ClickAction
NO_CLICK_ACTION == "NO_CLICK_ACTION"
ZOOM_ON_PIXEL == "ZOOM_ON_PIXEL"
ZOOM_TO_FIT == "ZOOM_TO_FIT"
SELECT == "SELECT"
RAP_FROM_PIXEL == "RAP_FROM_PIXEL"
RAP_IS_CENTER == "RAP_IS_CENTER"
CENTER_FRAME == "CENTER_FRAME"
CENTER_SCENE == "CENTER_SCENE"
SHOW_ENTIRE_SCENE == "SHOW_ENTIRE_SCENE"
ALIGN_FRAME == "ALIGN_FRAME"
ALIGN_CAMERA == "ALIGN_CAMERA"
ClickActions ==
    {NO_CLICK_ACTION, ZOOM_ON_PIXEL, ZOOM_TO_FIT, SELECT, RAP_FROM_PIXEL,
     RAP_IS_CENTER, CENTER_FRAME, CENTER_SCENE, SHOW_ENTIRE_SCENE,
     ALIGN_FRAME, ALIGN_CAMERA}

(***************************************************************************)
(* QMap<Key, T>: a function on a finite key set.  replace() overwrites,    *)
(* remove() of an absent key does nothing.                                 *)
(***************************************************************************)
EmptyMap == << >>

MapReplace(m, k, v) == [x \in (DOMAIN m) \cup {k} |-> IF x = k THEN v ELSE m[x]]

MapRemove(m, k) == [x \in (DOMAIN m) \ {k} |-> m[x]]

\* struct MouseActionPrivate { handler, action, withConstraint }
MouseActionPrivate(handler, action, withConstraint) ==
    [handler |-> handler, action |-> action, withConstraint |-> withConstraint]

\* struct ClickActionPrivate { buttonState, doubleClick, buttonBefore }
ClickActionPrivate(buttonState, doubleClick, buttonBefore) ==
    [buttonState |-> buttonState, doubleClick |-> doubleClick,
     buttonBefore |-> buttonBefore]

\* ClickActionPrivate::operator<, the order of clickBinding_'s iteration.
ClickLess(a, b) ==
    IF a.buttonBefore # b.buttonBefore THEN a.buttonBefore < b.buttonBefore
    ELSE IF a.buttonState # b.buttonState THEN a.buttonState < b.buttonState
    ELSE (~a.doubleClick) /\ b.doubleClick

\* The keys of a QMap<Qt::ButtonState, T> in iteration (ascending) order.
RECURSIVE SortedKeys(_)
SortedKeys(S) ==
    IF S = {} THEN << >>
    ELSE LET k == CHOOSE x \in S : \A y \in S : x <= y
         IN  <<k>> \o SortedKeys(S \ {k})

\* The keys of clickBinding_ in iteration order.
RECURSIVE SortedClickKeys(_)
SortedClickKeys(S) ==
    IF S = {} THEN << >>
    ELSE LET k == CHOOSE x \in S : \A y \in S \ {x} : ClickLess(x, y)
         IN  <<k>> \o SortedClickKeys(S \ {k})

(***************************************************************************)
(* The binding setters, as functions of the three tables                   *)
(* T = [mouse |-> mouseBinding_, wheel |-> wheelBinding_,                  *)
(*      click |-> clickBinding_].                                          *)
(***************************************************************************)
Tables(mouse, wheel, click) == [mouse |-> mouse, wheel |-> wheel, click |-> click]

CameraOnlyActions == {MOVE_FORWARD, MOVE_BACKWARD, ROLL, LOOK_AROUND, ZOOM_ON_REGION}

\* setMouseBinding with QMap::insert-if-absent in place of replace: an already
\* bound buttonState keeps its old action.
setMouseBinding_KeepsOld(T, buttonState, handler, action, withConstraint) ==
    IF handler = FRAME /\ action \in CameraOnlyActions
    THEN T
    ELSE IF BitAnd(buttonState, MouseButtonMask) = 0
    THEN T
    ELSE [T EXCEPT
            !.mouse = IF buttonState \in DOMAIN T.mouse THEN T.mouse
                      ELSE MapReplace(T.mouse, buttonState,
                                      MouseActionPrivate(handler, action, withConstraint)),
            !.click = MapRemove(T.click,
                                ClickActionPrivate(buttonState, FALSE, NoButton))]

\* setMouseBinding(int, MouseHandler, MouseAction, bool)
setMouseBinding(T, buttonState, handler, action, withConstraint) ==
    IF handler = FRAME /\ action \in CameraOnlyActions
    THEN T
    ELSE IF BitAnd(buttonState, MouseButtonMask) = 0
    THEN T
    ELSE [T EXCEPT
            !.mouse = MapReplace(T.mouse, buttonState,
                                 MouseActionPrivate(handler, action, withConstraint)),
            !.click = MapRemove(T.click,
                                ClickActionPrivate(buttonState, FALSE, NoButton))]

\* setMouseBinding(int, ClickAction, ...) without the test on doubleClick and
\* buttonBefore before mouseBinding_.remove().
setMouseBindingClick_AlwaysRemoves(T, buttonState, action, doubleClick, buttonBefore) ==
    IF buttonBefore # NoButton /\ doubleClick = FALSE
    THEN T
    ELSE IF BitAnd(buttonState, MouseButtonMask) = 0
    THEN T
    ELSE LET cap == ClickActionPrivate(buttonState, doubleClick,
                                       BitAnd(buttonBefore, MouseButtonMask))
         IN  [T EXCEPT
                !.click = MapReplace(T.click, cap, action),
                !.mouse = MapRemove(T.mouse, buttonState)]

\* setMouseBinding(int, ClickAction, bool, int)
setMouseBindingClick(T, buttonState, action, doubleClick, buttonBefore) ==
    IF buttonBefore # NoButton /\ doubleClick = FALSE
    THEN T
    ELSE IF BitAnd(buttonState, MouseButtonMask) = 0
    THEN T
    ELSE LET cap == ClickActionPrivate(buttonState, doubleClick,
                                       BitAnd(buttonBefore, MouseButtonMask))
         IN  [T EXCEPT
                !.click = MapReplace(T.click, cap, action),
                !.mouse = IF (~doubleClick) /\ buttonBefore = NoButton
                          THEN MapRemove(T.mouse, buttonState)
                          ELSE T.mouse]

WheelActions == {ZOOM, MOVE_FORWARD, MOVE_BACKWARD, NO_MOUSE_ACTION}

\* setWheelBinding without the FRAME restriction.
setWheelBinding_NoFrameTest(T, buttonState, handler, action, withConstraint) ==
    IF action \notin WheelActions
    THEN T
    ELSE [T EXCEPT
            !.wheel = MapReplace(T.wheel, buttonState,
                                 MouseActionPrivate(handler, action, withConstraint))]

\* setWheelBinding that warns about a disallowed action and binds it all the same.
setWheelBinding_WarnsOnly(T, buttonState, handler, action, withConstraint) ==
    [T EXCEPT
       !.wheel = MapReplace(T.wheel, buttonState,
                            MouseActionPrivate(handler, action, withConstraint))]

\* setWheelBinding(int, MouseHandler, MouseAction, bool)
setWheelBinding(T, buttonState, handler, action, withConstraint) ==
    IF action \notin WheelActions
    THEN T
    ELSE IF handler = FRAME /\ action # ZOOM /\ action # NO_MOUSE_ACTION
    THEN T
    ELSE [T EXCEPT
            !.wheel = MapReplace(T.wheel, buttonState,
                                 MouseActionPrivate(handler, action, withConstraint))]

(***************************************************************************)
(* setHandlerStateKey: the tables are rebuilt by loops over the old ones   *)
(* in key order; a later write to the same new key overwrites.             *)
(***************************************************************************)
\* The writes m[keys[i]] = vals[i], i = 1..Len(keys), applied in order to m.
RECURSIVE WriteAll(_, _, _)
WriteAll(m, keys, vals) ==
    IF keys = << >> THEN m
    ELSE WriteAll(MapReplace(m, Head(keys), Head(vals)), Tail(keys), Tail(vals))

\* A binding of `handler` that setHandlerStateKey moves to the new state key.
MovedMouse(b, handler) == b.handler = handler /\ b.action # ZOOM_ON_REGION

MovedWheel(b, handler) == b.handler = handler

MovedClick(ca, handler) ==
    \/ handler = CAMERA /\ ca \in {CENTER_SCENE, ALIGN_CAMERA}
    \/ handler = FRAME /\ ca \in {CENTER_FRAME, ALIGN_FRAME}

\* newMouseBinding of setHandlerStateKey
NewMouseBinding(mouse, handler, state) ==
    LET kept   == {k \in DOMAIN mouse : ~MovedMouse(mouse[k], handler)}
        moved  == SortedKeys({k \in DOMAIN mouse : MovedMouse(mouse[k], handler)})
        copy   == [k \in kept |-> mouse[k]]
        keys   == [i \in 1..Len(moved) |->
                     BitOr(state, BitAnd(moved[i], MouseButtonMask))]
        vals   == [i \in 1..Len(moved) |-> mouse[moved[i]]]
    IN  WriteAll(copy, keys, vals)

\* newWheelBinding of setHandlerStateKey
NewWheelBinding(wheel, handler, state) ==
    LET kept   == {k \in DOMAIN wheel : ~MovedWheel(wheel[k], handler)}
        moved  == SortedKeys({k \in DOMAIN wheel : MovedWheel(wheel[k], handler)})
        copy   == [k \in kept |-> wheel[k]]
        keys   == [i \in 1..Len(moved) |->
                     BitOr(state, BitAnd(moved[i], MouseButtonMask))]
        vals   == [i \in 1..Len(moved) |-> wheel[moved[i]]]
    IN  WriteAll(copy, keys, vals)

\* NewClickKey keeping the state keys of buttonBefore instead of its mouse buttons.
NewClickKey_KeyMask(cb, ca, handler, state) ==
    IF MovedClick(ca, handler)
    THEN ClickActionPrivate(
             BitOr(state, BitAnd(cb.buttonState, KeyButtonMask)),
             cb.doubleClick,
             BitAnd(BitAndNot(cb.buttonBefore, state), MouseButtonMask))
    ELSE cb

\* The key a click binding gets in newClickBinding_
NewClickKey(cb, ca, handler, state) ==
    IF MovedClick(ca, handler)
    THEN ClickActionPrivate(
             BitOr(state, BitAnd(cb.buttonState, MouseButtonMask)),
             cb.doubleClick,
             BitAnd(BitAndNot(cb.buttonBefore, state), MouseButtonMask))
    ELSE cb

\* newClickBinding_ of setHandlerStateKey
NewClickBinding(click, handler, state) ==
    LET old  == SortedClickKeys(DOMAIN click)
        keys == [i \in 1..Len(old) |-> NewClickKey(old[i], click[old[i]], handler, state)]
        vals == [i \in 1..Len(old) |-> click[old[i]]]
    IN  WriteAll(EmptyMap, keys, vals)

\* setHandlerStateKey(MouseHandler, int)
setHandlerStateKey(T, handler, buttonState) ==
    LET state == BitAnd(buttonState, KeyButtonMask)
    IN  Tables(NewMouseBinding(T.mouse, handler, state),
               NewWheelBinding(T.wheel, handler, state),
               NewClickBinding(T.click, handler, state))

(***************************************************************************)
(* Queries                                                                 *)
(***************************************************************************)
\* mouseAction(int)
mouseAction(T, buttonState) ==
    IF buttonState \in DOMAIN T.mouse THEN T.mouse[buttonState].action
    ELSE NO_MOUSE_ACTION

\* mouseHandler(int)
mouseHandler(T, buttonState) ==
    IF buttonState \in DOMAIN T.mouse THEN T.mouse[buttonState].handler
    ELSE -1

\* mouseButtonState(MouseHandler, MouseAction, bool): the first matching key
mouseButtonState(T, handler, action, withConstraint) ==
    LET hits == {k \in DOMAIN T.mouse :
                   T.mouse[k] = MouseActionPrivate(handler, action, withConstraint)}
    IN  IF hits = {} THEN NoButton
        ELSE CHOOSE k \in hits : \A j \in hits : k <= j

\* wheelAction(int)
wheelAction(T, buttonState) ==
    IF buttonState \in DOMAIN T.wheel THEN T.wheel[buttonState].action
    ELSE NO_MOUSE_ACTION

\* wheelHandler(int)
wheelHandler(T, buttonState) ==
    IF buttonState \in DOMAIN T.wheel THEN T.wheel[buttonState].handler
    ELSE -1

\* clickAction(int, bool, int)
clickAction(T, buttonState, doubleClick, buttonBefore) ==
    LET cap == ClickActionPrivate(buttonState, doubleClick,
                                  BitAnd(buttonBefore, KeyButtonMask))
    IN  IF cap \in DOMAIN T.click THEN T.click[cap] ELSE NO_CLICK_ACTION

\* cameraIsInRevolveMode()
cameraIsInRevolveMode(T) == mouseButtonState(T, CAMERA, ROTATE, TRUE) # NoButton

(***************************************************************************)
(* Sequences of setter calls                                               *)
(***************************************************************************)
CallM(bs, h, a) == [op |-> "mouse", bs |-> bs, h |-> h, a |-> a]
CallC(bs, ca, dc, bb) == [op |-> "click", bs |-> bs, ca |-> ca, dc |-> dc, bb |-> bb]
CallW(bs, h, a) == [op |-> "wheel", bs |-> bs, h |-> h, a |-> a]

\* One call of a setter with the default withConstraint = true.
ApplyCall(T, c) ==
    CASE c.op = "mouse" -> setMouseBinding(T, c.bs, c.h, c.a, TRUE)
      [] c.op = "click" -> setMouseBindingClick(T, c.bs, c.ca, c.dc, c.bb)
      [] c.op = "wheel" -> setWheelBinding(T, c.bs, c.h, c.a, TRUE)

RECURSIVE ApplyCalls(_, _)
ApplyCalls(T, calls) ==
    IF calls = << >> THEN T
    ELSE ApplyCalls(ApplyCall(T, Head(calls)), Tail(calls))

\* The five drag bindings and the wheel binding setDefaultMouseBindings
\* gives each handler.
DefaultHandlerCalls(mh, state) ==
    << CallM(state + LeftButton, mh, ROTATE),
       CallM(state + MidButton, mh, ZOOM),
       CallM(state + RightButton, mh, TRANSLATE),
       CallM(state + LeftButton + MidButton, mh, SCREEN_ROTATE),
       CallM(state + RightButton + MidButton, mh, SCREEN_TRANSLATE),
       CallW(state, mh, ZOOM) >>

\* setDefaultMouseBindings()
setDefaultMouseBindings(T) ==
    LET frameStateKey == ControlButton
    IN  ApplyCalls(T,
          DefaultHandlerCalls(CAMERA, NoButton)
          \o DefaultHandlerCalls(FRAME, frameStateKey)
          \o << CallM(ShiftButton + MidButton, CAMERA, ZOOM_ON_REGION),
                CallC(ShiftButton + LeftButton, SELECT, FALSE, NoButton),
                CallC(LeftButton, ALIGN_CAMERA, TRUE, NoButton),
                CallC(MidButton, SHOW_ENTIRE_SCENE, TRUE, NoButton),
                CallC(RightButton, CENTER_SCENE, TRUE, NoButton),
                CallC(frameStateKey + LeftButton, ALIGN_FRAME, TRUE, NoButton),
                CallC(frameStateKey + RightButton, CENTER_FRAME, TRUE, NoButton),
                CallC(LeftButton, RAP_FROM_PIXEL, TRUE, RightButton),
                CallC(RightButton, RAP_IS_CENTER, TRUE, LeftButton),
                CallC(LeftButton, ZOOM_ON_PIXEL, TRUE, MidButton),
                CallC(RightButton, ZOOM_TO_FIT, TRUE, MidButton) >>)

\* toggleCameraMode() binding the buttons without the state key
toggleCameraMode_NoStateKey(T) ==
    IF cameraIsInRevolveMode(T)
    THEN ApplyCalls(T,
           << CallM(LeftButton, CAMERA, MOVE_FORWARD),
              CallM(MidButton, CAMERA, LOOK_AROUND),
              CallM(RightButton, CAMERA, MOVE_BACKWARD),
              CallM(LeftButton + MidButton, CAMERA, ROLL),
              CallM(RightButton + MidButton, CAMERA, SCREEN_TRANSLATE),
              CallC(LeftButton, NO_CLICK_ACTION, TRUE, NoButton),
              CallC(MidButton, NO_CLICK_ACTION, TRUE, NoButton),
              CallC(RightButton, NO_CLICK_ACTION, TRUE, NoButton),
              CallW(NoButton, CAMERA, MOVE_FORWARD) >>)
    ELSE ApplyCalls(T,
           << CallM(LeftButton, CAMERA, ROTATE),
              CallM(MidButton, CAMERA, ZOOM),
              CallM(RightButton, CAMERA, TRANSLATE),
              CallM(LeftButton + MidButton, CAMERA, SCREEN_ROTATE),
              CallM(RightButton + MidButton, CAMERA, SCREEN_TRANSLATE),
              CallC(LeftButton, ALIGN_CAMERA, TRUE, NoButton),
              CallC(MidButton, SHOW_ENTIRE_SCENE, TRUE, NoButton),
              CallC(RightButton, CENTER_SCENE, TRUE, NoButton),
              CallW(NoButton, CAMERA, ZOOM) >>)

\* toggleCameraMode()
toggleCameraMode(T) ==
    LET revolveMode == cameraIsInRevolveMode(T)
        bs == IF revolveMode THEN mouseButtonState(T, CAMERA, ROTATE, TRUE)
              ELSE mouseButtonState(T, CAMERA, MOVE_FORWARD, TRUE)
        stateKey == BitAnd(bs, KeyButtonMask)
    IN  IF revolveMode
        THEN ApplyCalls(T,
               << CallM(BitOr(stateKey, LeftButton), CAMERA, MOVE_FORWARD),
                  CallM(BitOr(stateKey, MidButton), CAMERA, LOOK_AROUND),
                  CallM(BitOr(stateKey, RightButton), CAMERA, MOVE_BACKWARD),
                  CallM(BitOr(stateKey, LeftButton + MidButton), CAMERA, ROLL),
                  CallM(BitOr(stateKey, RightButton + MidButton), CAMERA, SCREEN_TRANSLATE),
                  CallC(LeftButton, NO_CLICK_ACTION, TRUE, NoButton),
                  CallC(MidButton, NO_CLICK_ACTION, TRUE, NoButton),
                  CallC(RightButton, NO_CLICK_ACTION, TRUE, NoButton),
                  CallW(stateKey, CAMERA, MOVE_FORWARD) >>)
        ELSE ApplyCalls(T,
               << CallM(BitOr(stateKey, LeftButton), CAMERA, ROTATE),
                  CallM(BitOr(stateKey, MidButton), CAMERA, ZOOM),
                  CallM(BitOr(stateKey, RightButton), CAMERA, TRANSLATE),
                  CallM(BitOr(stateKey, LeftButton + MidButton), CAMERA, SCREEN_ROTATE),
                  CallM(BitOr(stateKey, RightButton + MidButton), CAMERA, SCREEN_TRANSLATE),
                  CallC(LeftButton, ALIGN_CAMERA, TRUE, NoButton),
                  CallC(MidButton, SHOW_ENTIRE_SCENE, TRUE, NoButton),
                  CallC(RightButton, CENTER_SCENE, TRUE, NoButton),
                  CallW(stateKey, CAMERA, ZOOM) >>)

\* The tables of a freshly constructed viewer (defaultConstructor).
DefaultTables == setDefaultMouseBindings(Tables(EmptyMap, EmptyMap, EmptyMap))

(***************************************************************************)
(* The objects the mouse events are dispatched to.                         *)
(*   camFrame : camera()->frame(), a ManipulatedCameraFrame                *)
(*   mf       : a ManipulatedFrame of the application (a MouseGrabber)     *)
(*   mg       : a MouseGrabber that is no ManipulatedFrame                 *)
(***************************************************************************)
NULL == "NULL"
camFrame == "camFrame"
mf == "mf"
mg == "mg"

\* The frames whose action_ the viewer starts and tests.
Frames == {camFrame, mf}

\* MouseGrabber::MouseGrabberPool(), in registration order.
MouseGrabberPool == <<mg, mf>>

\* dynamic_cast<ManipulatedFrame*>(g) != NULL
IsManipulatedFrame(g) == g \in {mf, camFrame}

\* dynamic_cast<ManipulatedCameraFrame*>(g) != NULL
IsManipulatedCameraFrame(g) == g = camFrame

\* ManipulatedFrame::isManipulated()
isManipulated(act, f) == act[f] # NO_MOUSE_ACTION

\* ManipulatedFrame::startAction(action, withConstraint)
startAction(act, f, a) == [act EXCEPT ![f] = a]

\* The end of a frame's action: ManipulatedFrame::mouseReleaseEvent, and the
\* end of ManipulatedFrame::wheelEvent.
endAction(act, f) == [act EXCEPT ![f] = NO_MOUSE_ACTION]

\* The grabber state after setMouseGrabber(g): unchanged when g is disabled.
setMouseGrabber(G, g, disabled) ==
    IF g \in disabled THEN G
    ELSE [grabber |-> g,
          isMF    |-> IsManipulatedFrame(g),
          isMCF   |-> IsManipulatedCameraFrame(g) /\ g # camFrame]

\* What performClickAction(ca, e) asks to redraw: SELECT and RAP_IS_CENTER
\* call updateGL(), RAP_FROM_PIXEL does when a point is found under the pixel.
performClickAction(ca, found) ==
    CASE ca = SELECT -> TRUE
      [] ca = RAP_FROM_PIXEL -> found
      [] ca = RAP_IS_CENTER -> TRUE
      [] OTHER -> FALSE

\* EventClickKey that masks buttonBefore with the state keys, as clickAction()
\* does, instead of the mouse buttons.
EventClickKey_KeyMask(state, stateAfter, doubleClick) ==
    ClickActionPrivate(
        BitOr(BitAnd(state, KeyButtonMask),
              BitAndNot(BitAnd(stateAfter, MouseButtonMask),
                        BitAnd(state, MouseButtonMask))),
        doubleClick,
        BitAnd(BitAnd(state, MouseButtonMask), KeyButtonMask))

\* The ClickActionPrivate that mousePressEvent and mouseDoubleClickEvent build
\* from e->state() and e->stateAfter().
EventClickKey(state, stateAfter, doubleClick) ==
    ClickActionPrivate(
        BitOr(BitAnd(state, KeyButtonMask),
              BitAndNot(BitAnd(stateAfter, MouseButtonMask),
                        BitAnd(state, MouseButtonMask))),
        doubleClick,
        BitAnd(state, MouseButtonMask))

\* The outcome of the dispatch of one event:
\*   receiver : the object whose event handler is called (or NULL)
\*   on       : the frame an action is started on (or NULL), with `started`
\*   click    : the ClickAction performed, "none" when none is
Outcome(receiver, on, started, click, redraw, ignored) ==
    [receiver |-> receiver, on |-> on, started |-> started, click |-> click,
     redraw |-> redraw, ignored |-> ignored]

NoClick == "none"

\* The first FRAME drag binding whose mouse buttons are those of stateAfter
\* (the loop of mousePressEvent when the grabber is a ManipulatedFrame).
FrameBindingForButtons(T, stateAfter) ==
    LET hits == {k \in DOMAIN T.mouse :
                   /\ T.mouse[k].handler = FRAME
                   /\ BitAnd(k, MouseButtonMask) = BitAnd(stateAfter, MouseButtonMask)}
    IN  IF hits = {} THEN {}
        ELSE {CHOOSE k \in hits : \A j \in hits : k <= j}

\* The first FRAME wheel binding (the loop of wheelEvent).
FrameWheelBinding(T) ==
    LET hits == {k \in DOMAIN T.wheel : T.wheel[k].handler = FRAME}
    IN  IF hits = {} THEN {}
        ELSE {CHOOSE k \in hits : \A j \in hits : k <= j}

\* PressWithGrabber that looks the binding of a ManipulatedFrame grabber up by
\* the whole of stateAfter, state keys included.
PressWithGrabber_ExactState(T, G, stateAfter) ==
    IF G.isMF
    THEN IF stateAfter \in DOMAIN T.mouse /\ T.mouse[stateAfter].handler = FRAME
         THEN Outcome(G.grabber, G.grabber, T.mouse[stateAfter].action, NoClick, TRUE, FALSE)
         ELSE Outcome(NULL, NULL, NO_MOUSE_ACTION, NoClick, TRUE, FALSE)
    ELSE Outcome(G.grabber, NULL, NO_MOUSE_ACTION, NoClick, TRUE, FALSE)

\* mousePressEvent, the branch with a mouseGrabber()
PressWithGrabber(T, G, stateAfter) ==
    IF G.isMF
    THEN LET hit == FrameBindingForButtons(T, stateAfter)
         IN  IF hit = {} THEN Outcome(NULL, NULL, NO_MOUSE_ACTION, NoClick, TRUE, FALSE)
             ELSE LET k == CHOOSE x \in hit : TRUE
                  IN  Outcome(G.grabber, G.grabber, T.mouse[k].action, NoClick, TRUE, FALSE)
    ELSE Outcome(G.grabber, NULL, NO_MOUSE_ACTION, NoClick, TRUE, FALSE)

\* PressDrag that gives the camera frame the action of a FRAME binding when
\* there is no manipulatedFrame().
PressDrag_CameraFallback(T, manipulatedFrame, stateAfter) ==
    IF stateAfter \in DOMAIN T.mouse
    THEN Outcome(IF T.mouse[stateAfter].handler = FRAME /\ manipulatedFrame # NULL
                 THEN manipulatedFrame ELSE camFrame,
                 IF T.mouse[stateAfter].handler = FRAME /\ manipulatedFrame # NULL
                 THEN manipulatedFrame ELSE camFrame,
                 T.mouse[stateAfter].action, NoClick,
                 T.mouse[stateAfter].action = SCREEN_ROTATE, FALSE)
    ELSE Outcome(NULL, NULL, NO_MOUSE_ACTION, NoClick, FALSE, TRUE)

\* mousePressEvent, the branch without mouseGrabber(), once no click binding
\* matched: the drag binding of e->stateAfter()
PressDrag(T, manipulatedFrame, stateAfter) ==
    IF stateAfter \in DOMAIN T.mouse
    THEN LET map == T.mouse[stateAfter]
         IN  IF map.handler = CAMERA
             THEN Outcome(camFrame, camFrame, map.action, NoClick,
                          map.action = SCREEN_ROTATE, FALSE)
             ELSE IF manipulatedFrame # NULL
                  THEN Outcome(manipulatedFrame, manipulatedFrame, map.action, NoClick,
                               map.action = SCREEN_ROTATE, FALSE)
                  ELSE Outcome(NULL, NULL, NO_MOUSE_ACTION, NoClick, FALSE, FALSE)
    ELSE Outcome(NULL, NULL, NO_MOUSE_ACTION, NoClick, FALSE, TRUE)

\* PressWithoutGrabber that looks the drag binding up first, and the click
\* binding only when there is none.
PressWithoutGrabber_DragFirst(T, manipulatedFrame, state, stateAfter, found) ==
    LET cap == EventClickKey(state, stateAfter, FALSE)
    IN  IF stateAfter \in DOMAIN T.mouse
        THEN PressDrag(T, manipulatedFrame, stateAfter)
        ELSE IF cap \in DOMAIN T.click
        THEN Outcome(NULL, NULL, NO_MOUSE_ACTION, T.click[cap],
                     performClickAction(T.click[cap], found), FALSE)
        ELSE PressDrag(T, manipulatedFrame, stateAfter)

\* mousePressEvent, the branch without mouseGrabber()
PressWithoutGrabber(T, manipulatedFrame, state, stateAfter, found) ==
    LET cap == EventClickKey(state, stateAfter, FALSE)
    IN  IF cap \in DOMAIN T.click
        THEN Outcome(NULL, NULL, NO_MOUSE_ACTION, T.click[cap],
                     performClickAction(T.click[cap], found), FALSE)
        ELSE PressDrag(T, manipulatedFrame, stateAfter)

\* mousePressEvent(e)
mousePressEvent(T, G, manipulatedFrame, state, stateAfter, found) ==
    IF G.grabber # NULL
    THEN PressWithGrabber(T, G, stateAfter)
    ELSE PressWithoutGrabber(T, manipulatedFrame, state, stateAfter, found)

\* mouseDoubleClickEvent(e)
mouseDoubleClickEvent(T, G, state, stateAfter, found) ==
    IF G.grabber # NULL
    THEN Outcome(G.grabber, NULL, NO_MOUSE_ACTION, NoClick, FALSE, FALSE)
    ELSE LET cap == EventClickKey(state, stateAfter, TRUE)
         IN  IF cap \in DOMAIN T.click
             THEN Outcome(NULL, NULL, NO_MOUSE_ACTION, T.click[cap],
                          performClickAction(T.click[cap], found), FALSE)
             ELSE Outcome(NULL, NULL, NO_MOUSE_ACTION, NoClick, FALSE, TRUE)

\* mouseReleaseEvent with the redraw made only when an owner got the release
\* (the version left in comments in the source).
mouseReleaseEvent_RedrawIfOwner(G, act, manipulatedFrame) ==
    IF G.grabber # NULL
    THEN Outcome(G.grabber, NULL, NO_MOUSE_ACTION, NoClick, TRUE, FALSE)
    ELSE IF isManipulated(act, camFrame)
    THEN Outcome(camFrame, NULL, NO_MOUSE_ACTION, NoClick, TRUE, FALSE)
    ELSE IF manipulatedFrame # NULL /\ isManipulated(act, manipulatedFrame)
    THEN Outcome(manipulatedFrame, NULL, NO_MOUSE_ACTION, NoClick, TRUE, FALSE)
    ELSE Outcome(NULL, NULL, NO_MOUSE_ACTION, NoClick, FALSE, TRUE)

\* mouseReleaseEvent(e): the owner the release goes to
mouseReleaseEvent(G, act, manipulatedFrame) ==
    IF G.grabber # NULL
    THEN Outcome(G.grabber, NULL, NO_MOUSE_ACTION, NoClick, TRUE, FALSE)
    ELSE IF isManipulated(act, camFrame)
    THEN Outcome(camFrame, NULL, NO_MOUSE_ACTION, NoClick, TRUE, FALSE)
    ELSE IF manipulatedFrame # NULL /\ isManipulated(act, manipulatedFrame)
    THEN Outcome(manipulatedFrame, NULL, NO_MOUSE_ACTION, NoClick, TRUE, FALSE)
    ELSE Outcome(NULL, NULL, NO_MOUSE_ACTION, NoClick, TRUE, TRUE)

\* The grabber after mouseReleaseEvent: it is dropped when it no longer
\* grabs the mouse at the position of the event.
GrabberAfterRelease(G, grabbing, disabled) ==
    IF G.grabber # NULL /\ G.grabber \notin grabbing
    THEN setMouseGrabber(G, NULL, disabled)
    ELSE G

\* wheelEvent(e)
wheelEvent(T, G, manipulatedFrame, state) ==
    IF G.grabber # NULL
    THEN IF G.isMF
         THEN LET hit == FrameWheelBinding(T)
              IN  IF hit = {} THEN Outcome(NULL, NULL, NO_MOUSE_ACTION, NoClick, TRUE, FALSE)
                  ELSE LET k == CHOOSE x \in hit : TRUE
                       IN  Outcome(G.grabber, G.grabber, T.wheel[k].action, NoClick, TRUE, FALSE)
         ELSE Outcome(G.grabber, NULL, NO_MOUSE_ACTION, NoClick, TRUE, FALSE)
    ELSE IF state \in DOMAIN T.wheel
    THEN LET map == T.wheel[state]
         IN  IF map.handler = CAMERA
             THEN Outcome(camFrame, camFrame, map.action, NoClick, FALSE, FALSE)
             ELSE IF manipulatedFrame # NULL
                  THEN Outcome(manipulatedFrame, manipulatedFrame, map.action, NoClick,
                               FALSE, FALSE)
                  ELSE Outcome(NULL, NULL, NO_MOUSE_ACTION, NoClick, FALSE, FALSE)
    ELSE Outcome(NULL, NULL, NO_MOUSE_ACTION, NoClick, FALSE, TRUE)

\* PollPool that stops at the first grabber that grabs the mouse, enabled or
\* not.
RECURSIVE PollPool_StopAtFirst(_, _, _, _)
PollPool_StopAtFirst(G, i, grabbing, disabled) ==
    IF i > Len(MouseGrabberPool) THEN G
    ELSE IF MouseGrabberPool[i] \in grabbing
         THEN setMouseGrabber(G, MouseGrabberPool[i], disabled)
         ELSE PollPool_StopAtFirst(G, i + 1, grabbing, disabled)

\* The first grabber of the pool, from position i on, that grabs the mouse
\* and that setMouseGrabber() accepts (the polling loop of mouseMoveEvent).
RECURSIVE PollPool(_, _, _, _)
PollPool(G, i, grabbing, disabled) ==
    IF i > Len(MouseGrabberPool) THEN G
    ELSE LET g == MouseGrabberPool[i]
         IN  IF g \in grabbing /\ setMouseGrabber(G, g, disabled).grabber = g
             THEN setMouseGrabber(G, g, disabled)
             ELSE PollPool(G, i + 1, grabbing, disabled)

\* mouseMoveEvent(e), first part: the grabber after the test of the active one
MoveGrabber(G, grabbing, disabled) ==
    IF G.grabber # NULL /\ G.grabber \notin grabbing
    THEN setMouseGrabber(G, NULL, disabled)
    ELSE G

\* MoveWithoutGrabber that polls the pool before it looks at the frames in
\* action.
MoveWithoutGrabber_PollFirst(G1, act, manipulatedFrame, tracking, grabbing, disabled) ==
    IF tracking /\ PollPool(G1, 1, grabbing, disabled).grabber # NULL
    THEN [G |-> PollPool(G1, 1, grabbing, disabled), receiver |-> NULL, redraw |-> TRUE]
    ELSE IF isManipulated(act, camFrame)
    THEN [G |-> G1, receiver |-> camFrame, redraw |-> act[camFrame] = ZOOM_ON_REGION]
    ELSE IF manipulatedFrame # NULL /\ isManipulated(act, manipulatedFrame)
    THEN [G |-> G1, receiver |-> manipulatedFrame, redraw |-> FALSE]
    ELSE [G |-> G1, receiver |-> NULL, redraw |-> FALSE]

\* mouseMoveEvent(e), second part, with G1 the grabber after the first part
MoveWithoutGrabber(G1, act, manipulatedFrame, tracking, grabbing, disabled) ==
    IF isManipulated(act, camFrame)
    THEN [G |-> G1, receiver |-> camFrame, redraw |-> act[camFrame] = ZOOM_ON_REGION]
    ELSE IF manipulatedFrame # NULL /\ isManipulated(act, manipulatedFrame)
    THEN [G |-> G1, receiver |-> manipulatedFrame, redraw |-> FALSE]
    ELSE IF tracking
    THEN LET G2 == PollPool(G1, 1, grabbing, disabled)
         IN  [G |-> G2, receiver |-> NULL, redraw |-> G2.grabber # NULL]
    ELSE [G |-> G1, receiver |-> NULL, redraw |-> FALSE]

\* mouseMoveEvent that ends once it has dropped the grabber.
mouseMoveEvent_NoFallThrough(G, act, manipulatedFrame, tracking, grabbing, disabled) ==
    IF G.grabber # NULL
    THEN [G |-> MoveGrabber(G, grabbing, disabled),
          receiver |-> IF G.grabber \in grabbing THEN G.grabber ELSE NULL,
          redraw |-> TRUE]
    ELSE MoveWithoutGrabber(G, act, manipulatedFrame, tracking, grabbing, disabled)

\* mouseMoveEvent(e)
mouseMoveEvent(G, act, manipulatedFrame, tracking, grabbing, disabled) ==
    LET G1 == MoveGrabber(G, grabbing, disabled)
    IN  IF G.grabber # NULL /\ G1.grabber # NULL
        THEN [G |-> G1,
              receiver |-> IF G.grabber \in grabbing THEN G.grabber ELSE NULL,
              redraw |-> TRUE]
        ELSE LET r == MoveWithoutGrabber(G1, act, manipulatedFrame, tracking,
                                         grabbing, disabled)
             IN  [r EXCEPT !.redraw = r.redraw \/ G.grabber # NULL]

(***************************************************************************)
(* State                                                                   *)
(***************************************************************************)
VARIABLES
    mouseBinding_,      \* QMap<Qt::ButtonState, MouseActionPrivate>
    wheelBinding_,      \* QMap<Qt::ButtonState, MouseActionPrivate>
    clickBinding_,      \* QMap<ClickActionPrivate, ClickAction>
    lastOp,             \* the last binding call made and its arguments
    nOps,               \* number of binding calls made so far
    mouseGrabber_,      \* the active MouseGrabber, or NULL
    mouseGrabberIsAManipulatedFrame_,
    mouseGrabberIsAManipulatedCameraFrame_,
    disabledMouseGrabbers_,
    manipulatedFrame_,  \* the viewer's manipulatedFrame(), or NULL
    action_,            \* action_ of each frame (NO_MOUSE_ACTION: not manipulated)
    buttons,            \* the mouse buttons held down (Qt's button state)
    mouseTracking,      \* QWidget::hasMouseTracking()
    lastEvent,          \* the last event dispatched and its outcome
    selectBuffer_,      \* selectBuffer(): the GLuint values of the hit records
    selectedName_,      \* selectedName()
    previousPathId_,    \* of each viewer: the index of its last path key press
    kfi_,               \* of each viewer's camera: the KeyFrameInterpolator of each index
    doublePress,        \* static QTime doublePress: ms since its last restart()
    lastPathPress,      \* of each viewer: its last play or record press, and its age
    lastKey,            \* the last key press and what it called
    pressedIds,         \* of each viewer: the indexes of its play and record presses
    nKeys,              \* number of key presses made so far
    qglviewer,          \* the fields of the viewer that the state file saves
    disk,               \* the file system at stateFileName()
    lastCall,           \* the last save, restore or load and what it gave
    nCalls,             \* number of such calls made so far
    domCall,            \* the last call of a DomUtils reader and what it gave
    userZClippingCoefficient,
                        \* the zClippingCoefficient() that the application gave the camera
    message_,           \* the text of the last displayMessage()
    displayMessage_,    \* whether postDraw() draws message_
    messageTimer_,      \* the single shot QTimer that calls hideMessage()
    lastDisplay,        \* the last displayMessage() call and the time since
    widget,             \* width() and height() of the viewer's widget
    bufferTexture,      \* the bufferTexture..._ fields of copyBufferToTexture()
    grabsMouse,         \* the MouseGrabbers whose grabsMouse() the last move found true
    pressedOn,          \* the MouseGrabber that got the press of the button held, or NULL
    normalPos,          \* <<pos()>> of the top level widget when it last left the normal
                        \* state, << >> as long as it never did
    animationStarted_,  \* animationIsStarted()
    animationTimerId_,  \* the value of the last startTimer()
    timers,             \* the timers of the viewer that run: id and ms left to the next event
    animated,           \* number of animate() calls made by the timer events of the last 10 ms
    sinceAnimate,       \* ms since the last animate() call (AnimationPeriod: that or more)
    visualHint_,        \* the mask of drawVisualHints()
    hintTimers,         \* the single shot timers of setVisualHintsMask() that have not
                        \* fired: id and time left
    gl,                 \* the OpenGL state of the viewer's context
    glEntry             \* the OpenGL state that the last postDraw() was called in

bindingVars == <<mouseBinding_, wheelBinding_, clickBinding_, lastOp, nOps>>

mouseVars ==
    <<mouseGrabber_, mouseGrabberIsAManipulatedFrame_,
      mouseGrabberIsAManipulatedCameraFrame_, disabledMouseGrabbers_,
      manipulatedFrame_, action_, buttons, mouseTracking, lastEvent>>

selectVars == <<selectBuffer_, selectedName_>>

\* The state that the binding calls and the mouse events leave alone.
pathVars ==
    <<previousPathId_, kfi_, doublePress, lastPathPress, lastKey, pressedIds, nKeys>>

persistVars == <<qglviewer, disk, lastCall, nCalls>>

domVars == <<domCall>>

messageVars == <<message_, displayMessage_, messageTimer_, lastDisplay>>

textureVars == <<widget, bufferTexture>>

pointerVars == <<grabsMouse, pressedOn>>

windowVars == <<normalPos>>

animVars == <<animationStarted_, animationTimerId_, timers, animated, sinceAnimate>>

hintVars == <<visualHint_, hintTimers>>

glVars == <<gl, glEntry>>

sceneVars == <<windowVars, animVars, hintVars, glVars>>

viewVars ==
    <<userZClippingCoefficient, messageVars, textureVars, pointerVars, sceneVars>>

stateVars == <<persistVars, domVars, viewVars>>

otherVars == <<selectVars, pathVars, stateVars>>

vars == <<bindingVars, mouseVars, otherVars>>

\* The three tables of the current state, and of the next state.
Cur == Tables(mouseBinding_, wheelBinding_, clickBinding_)

Nxt == Tables(mouseBinding_', wheelBinding_', clickBinding_')

\* Number of binding calls explored after construction.
MaxOps == 2

\* The arguments the binding calls are explored with.
DragStates == {ShiftButton, LeftButton, ShiftButton + LeftButton}

DragActions == {NO_MOUSE_ACTION, ROTATE, ZOOM, MOVE_FORWARD, ZOOM_ON_REGION}

ClickStates == {NoButton, LeftButton, ShiftButton + LeftButton}

ClickArgActions == {NO_CLICK_ACTION, SELECT, CENTER_SCENE}

BeforeStates == {NoButton, RightButton}

WheelStates == {NoButton, ControlButton}

WheelArgActions == {ZOOM, MOVE_FORWARD, ROTATE}

StateKeys == {NoButton, ShiftButton, ControlButton}

Op(op, bs, handler, action, wc, dc, bb) ==
    [op |-> op, buttonState |-> bs, handler |-> handler, action |-> action,
     withConstraint |-> wc, doubleClick |-> dc, buttonBefore |-> bb]

NoOp == Op("construct", NoButton, CAMERA, NO_MOUSE_ACTION, TRUE, FALSE, NoButton)

SetTables(T) ==
    /\ mouseBinding_' = T.mouse
    /\ wheelBinding_' = T.wheel
    /\ clickBinding_' = T.click

\* The current grabber with its two cached dynamic_cast results.
CurGrabber ==
    [grabber |-> mouseGrabber_,
     isMF    |-> mouseGrabberIsAManipulatedFrame_,
     isMCF   |-> mouseGrabberIsAManipulatedCameraFrame_]

SetGrabber(G) ==
    /\ mouseGrabber_' = G.grabber
    /\ mouseGrabberIsAManipulatedFrame_' = G.isMF
    /\ mouseGrabberIsAManipulatedCameraFrame_' = G.isMCF

\* An event as the user makes it (the state keys held, the button that goes
\* down or up, the buttons held before, whether the active grabber grabs the
\* mouse at its position) and the outcome of its dispatch.
Event(ev, mods, button, before, grabs, o) ==
    [ev |-> ev, mods |-> mods, button |-> button, before |-> before,
     grabs |-> grabs,
     receiver |-> o.receiver, on |-> o.on, started |-> o.started,
     click |-> o.click, redraw |-> o.redraw, ignored |-> o.ignored]

NoEvent ==
    Event("none", NoButton, NoButton, NoButton, FALSE,
          Outcome(NULL, NULL, NO_MOUSE_ACTION, NoClick, FALSE, FALSE))

\* The dispatcher's state after defaultConstructor(): no manipulatedFrame(),
\* no mouseGrabber(), no frame in action, no button held.
InitMouse ==
    /\ mouseGrabber_ = NULL
    /\ mouseGrabberIsAManipulatedFrame_ = FALSE
    /\ mouseGrabberIsAManipulatedCameraFrame_ = FALSE
    /\ disabledMouseGrabbers_ = {}
    /\ manipulatedFrame_ = NULL
    /\ action_ = [f \in Frames |-> NO_MOUSE_ACTION]
    /\ buttons = NoButton
    /\ mouseTracking = FALSE
    /\ lastEvent = NoEvent

\* The selection state after defaultConstructor()
InitSelect ==
    /\ selectBuffer_ = << >>
    /\ selectedName_ = -1

\* The viewers of the application (QGLViewer::QGLViewerPool_)
Viewers == {1, 2}

\* The path indexes of the keys explored, among those of setDefaultShortcuts()
PathIndexes == {1, 2, 3}

\* (elapsed < 250): the delay of a double press, in ms
DoublePressDelay == 250

\* camera()->keyFrameInterpolator(index): NULL when numberOfKeyFrames is 0
KFI(n, started, connected) ==
    [numberOfKeyFrames |-> n, interpolationIsStarted |-> started,
     connected |-> connected]

NoKFI == KFI(0, FALSE, 0)

\* A play or record press of a viewer: the index, the kind, whether it added
\* a key frame, and the time elapsed since (DoublePressDelay: that or more).
PathPress(index, kind, added, age) ==
    [index |-> index, kind |-> kind, added |-> added, age |-> age]

NoPathPress == PathPress(0, "none", FALSE, DoublePressDelay)

\* A key press: the viewer, the path index of the key, the state keys (play,
\* record or other), the time since the previous key press and the Camera
\* method called.
KeyPress(viewer, index, state, dt, call) ==
    [viewer |-> viewer, index |-> index, state |-> state, dt |-> dt, call |-> call]

NoKeyPress == KeyPress(0, 0, "none", 0, "none")

\* The camera paths and the path keys after defaultConstructor(), with
\* doublePress never started
InitPath ==
    /\ previousPathId_ = [v \in Viewers |-> 0]
    /\ kfi_ = [v \in Viewers |-> [i \in PathIndexes |-> NoKFI]]
    /\ doublePress = DoublePressDelay
    /\ lastPathPress = [v \in Viewers |-> NoPathPress]
    /\ lastKey = NoKeyPress
    /\ pressedIds = [v \in Viewers |-> {}]
    /\ nKeys = 0

\* ---------------------------------------------------------------------
\* QString and QDomElement, as domUtils.h uses them.  A QString is the
\* sequence of its characters; an attribute name is compared whole and is
\* a plain string.

UpperCase ==
    <<"A", "B", "C", "D", "E", "F", "G", "H", "I", "J", "K", "L", "M",
      "N", "O", "P", "Q", "R", "S", "T", "U", "V", "W", "X", "Y", "Z">>

LowerCase ==
    <<"a", "b", "c", "d", "e", "f", "g", "h", "i", "j", "k", "l", "m",
      "n", "o", "p", "q", "r", "s", "t", "u", "v", "w", "x", "y", "z">>

Digits == <<"0", "1", "2", "3", "4", "5", "6", "7", "8", "9">>

IndexIn(seq, c) == CHOOSE i \in DOMAIN seq : seq[i] = c

IsIn(seq, c) == \E i \in DOMAIN seq : seq[i] = c

\* QString::toLower()
toLower(s) ==
    [i \in DOMAIN s |->
        IF IsIn(UpperCase, s[i]) THEN LowerCase[IndexIn(UpperCase, s[i])] ELSE s[i]]

Front(s) == SubSeq(s, 1, Len(s) - 1)

AllDigits(s) == \A i \in DOMAIN s : IsIn(Digits, s[i])

RECURSIVE DigitsValue(_)
DigitsValue(s) ==
    IF s = << >> THEN 0
    ELSE 10 * DigitsValue(Front(s)) + (IndexIn(Digits, s[Len(s)]) - 1)

Unsigned(s) == IF s # << >> /\ s[1] \in {"-", "+"} THEN Tail(s) ELSE s

Negative(s) == s # << >> /\ s[1] = "-"

\* QString::toInt(&ok), base 10, for texts short enough not to overflow:
\* an optional sign and at least one digit, nothing else.
toInt(s) ==
    LET ok == Unsigned(s) # << >> /\ AllDigits(Unsigned(s))
        n  == DigitsValue(Unsigned(s))
    IN  [ok |-> ok, value |-> IF ~ok THEN 0 ELSE IF Negative(s) THEN -n ELSE n]

RECURSIVE NatToString(_)
NatToString(n) ==
    IF n < 10 THEN <<Digits[n + 1]>>
    ELSE Append(NatToString(n \div 10), Digits[(n % 10) + 1])

\* QString::number(int)
number(n) == IF n < 0 THEN <<"-">> \o NatToString(-n) ELSE NatToString(n)

\* A float: m * 10^(-e), with m not a multiple of 10 unless e = 0; or NaN.
RECURSIVE Float(_, _)
Float(m, e) ==
    IF e > 0 /\ m % 10 = 0 THEN Float(m \div 10, e - 1) ELSE [m |-> m, e |-> e]

NaN == [m |-> 0, e |-> -1]

DotAt(s) == IF IsIn(s, ".") THEN IndexIn(s, ".") ELSE Len(s) + 1

\* QString::toFloat(&ok) for texts in plain decimal notation: an optional
\* sign, digits, and an optional point followed by digits; or "nan".
toFloat(s) ==
    LET u    == Unsigned(s)
        int  == SubSeq(u, 1, DotAt(u) - 1)
        frac == SubSeq(u, DotAt(u) + 1, Len(u))
        ok   == /\ int # << >> /\ AllDigits(int) /\ AllDigits(frac)
                /\ (IsIn(u, ".") => frac # << >>)
        n    == DigitsValue(int \o frac)
    IN  IF s = <<"n", "a", "n">> THEN [ok |-> TRUE, value |-> NaN]
        ELSE [ok |-> ok,
              value |-> IF ~ok THEN Float(0, 0)
                        ELSE Float(IF Negative(s) THEN -n ELSE n, Len(frac))]

\* QDomElement: a tag name, attributes and child elements
Element(tagName, attributes, children) ==
    [tagName |-> tagName, attributes |-> attributes, children |-> children]

\* QDomElement::hasAttribute
hasAttribute(e, name) == name \in DOMAIN e.attributes

\* QDomElement::attribute(name, defValue)
attribute(e, name, defValue) ==
    IF hasAttribute(e, name) THEN e.attributes[name] ELSE defValue

\* QDomElement::setAttribute
setAttribute(e, name, value) ==
    [e EXCEPT !.attributes = MapReplace(@, name, value)]

\* QDomNode::appendChild
appendChild(e, child) == [e EXCEPT !.children = Append(@, child)]

\* What a DomUtils reader gives: the value and the number of warning() calls
FromDom(value, warnings) == [value |-> value, warnings |-> warnings]

\* DomUtils::floatFromDom; isnanDefined: whether <math.h> defines the
\* macro isnan in this build
floatFromDom(e, name, defValue, isnanDefined) ==
    LET parsed == toFloat(e.attributes[name])
        value  == IF ~hasAttribute(e, name) THEN defValue
                  ELSE IF parsed.ok THEN parsed.value ELSE defValue
        bad    == IF ~hasAttribute(e, name) THEN 1
                  ELSE IF parsed.ok THEN 0 ELSE 1
    IN  FromDom(value, bad + IF isnanDefined /\ value = NaN THEN 1 ELSE 0)

\* DomUtils::intFromDom
intFromDom(e, name, defValue) ==
    IF ~hasAttribute(e, name) THEN FromDom(defValue, 1)
    ELSE IF toInt(e.attributes[name]).ok
         THEN FromDom(toInt(e.attributes[name]).value, 0)
         ELSE FromDom(defValue, 1)

boolFromDom_ExactCase(e, name, defValue) ==
    IF ~hasAttribute(e, name) THEN FromDom(defValue, 1)
    ELSE IF e.attributes[name] = <<"t", "r", "u", "e">> THEN FromDom(TRUE, 0)
    ELSE IF e.attributes[name] = <<"f", "a", "l", "s", "e">> THEN FromDom(FALSE, 0)
    ELSE FromDom(defValue, 2)

\* DomUtils::boolFromDom
boolFromDom(e, name, defValue) ==
    IF ~hasAttribute(e, name) THEN FromDom(defValue, 1)
    ELSE IF toLower(e.attributes[name]) = <<"t", "r", "u", "e">> THEN FromDom(TRUE, 0)
    ELSE IF toLower(e.attributes[name]) = <<"f", "a", "l", "s", "e">> THEN FromDom(FALSE, 0)
    ELSE FromDom(defValue, 2)

\* QColor(r, g, b)
QColor(r, g, b) == <<r, g, b>>

\* DomUtils::QColorDomElement
QColorDomElement(color, name) ==
    setAttribute(setAttribute(setAttribute(Element(name, EmptyMap, << >>),
        "red", number(color[1])), "green", number(color[2])), "blue", number(color[3]))

\* DomUtils::QColorFromDom
QColorFromDom(e) ==
    LET r == intFromDom(e, "red", 0)
        g == intFromDom(e, "green", 0)
        b == intFromDom(e, "blue", 0)
    IN  FromDom(QColor(r.value, g.value, b.value),
                r.warnings + g.warnings + b.warnings)

\* ---------------------------------------------------------------------
\* The state of a viewer that domElement() saves and initFromDOMElement()
\* restores.  V is a viewer: its binding tables T, its manipulatedFrame_
\* pointer, and the fields below.

\* Camera::zClippingCoefficient() set by setCameraIsEdited(true): 5.0
EditedZClippingCoefficient == Float(5, 0)

\* The zClippingCoefficient() of a new Camera: sqrt(3.0), written 1.73
DefaultZClippingCoefficient == Float(173, 2)

\* QGLViewerVersionString()
QGLViewerVersionString == <<"1", ".", "3", ".", "9">>

S_true == <<"t", "r", "u", "e">>
S_false == <<"f", "a", "l", "s", "e">>
S_revolve == <<"r", "e", "v", "o", "l", "v", "e">>
S_fly == <<"f", "l", "y">>

BoolString(b) == IF b THEN S_true ELSE S_false

QPoint(x, y) == [x |-> x, y |-> y]

\* topLevelWidget(): its normal size, its position and whether it is shown
\* full screen
Widget(width, height, pos, isFull) ==
    [width |-> width, height |-> height, pos |-> pos, isFull |-> isFull]

\* What a call leaves: the viewer, the QMessageBox::warning boxes opened
\* and the value returned
Ret(V, boxes, value) == [V |-> V, boxes |-> boxes, value |-> value]

\* setStereoDisplay(stereo); formatStereo is format().stereo()
setStereoDisplay(R, stereo) ==
    IF R.V.formatStereo THEN [R EXCEPT !.V.stereo_ = stereo]
    ELSE IF stereo THEN [R EXCEPT !.boxes = @ + 1]
    ELSE [R EXCEPT !.V.stereo_ = FALSE]

\* setCameraIsEdited(edit)
setCameraIsEdited(V, edit) ==
    IF edit
    THEN [V EXCEPT !.cameraIsEdited_ = TRUE,
                   !.previousCameraZClippingCoefficient_ = V.zClippingCoefficient,
                   !.zClippingCoefficient = EditedZClippingCoefficient]
    ELSE [V EXCEPT !.cameraIsEdited_ = FALSE,
                   !.zClippingCoefficient = V.previousCameraZClippingCoefficient_]

\* setFullScreen(fullScreen)
setFullScreen(V, fullScreen) ==
    IF ~V.updateGLOK_ THEN [V EXCEPT !.fullScreen_ = fullScreen]
    ELSE IF fullScreen
    THEN [V EXCEPT !.fullScreen_ = TRUE, !.prevPos_ = V.tlw.pos,
                   !.tlw.isFull = TRUE, !.tlw.pos = QPoint(0, 0)]
    ELSE [V EXCEPT !.fullScreen_ = FALSE,
                   !.tlw.isFull = FALSE, !.tlw.pos = V.prevPos_]

\* Camera::domElement("Camera", document): the camera's sub-document
CameraDomElement(V) ==
    setAttribute(Element("Camera", EmptyMap, << >>),
                 "zClippingCoefficient", V.zClippingCoefficient)

\* Camera::initFromDOMElement(child)
CameraInitFromDOMElement(V, child) ==
    IF hasAttribute(child, "zClippingCoefficient")
    THEN [V EXCEPT !.zClippingCoefficient = child.attributes["zClippingCoefficient"]]
    ELSE V

\* ManipulatedFrame::domElement("ManipulatedFrame", document)
FrameDomElement(V) ==
    setAttribute(Element("ManipulatedFrame", EmptyMap, << >>), "frame", V.frame)

\* ManipulatedFrame::initFromDOMElement(child)
FrameInitFromDOMElement(V, child) ==
    IF hasAttribute(child, "frame") THEN [V EXCEPT !.frame = child.attributes["frame"]]
    ELSE V

StateNode(V) ==
    setAttribute(setAttribute(
        appendChild(appendChild(Element("State", EmptyMap, << >>),
            QColorDomElement(V.foregroundColor, "foregroundColor")),
            QColorDomElement(V.backgroundColor, "backgroundColor")),
        "stereo", BoolString(V.stereo_)),
        "cameraMode", IF cameraIsInRevolveMode(V.T) THEN S_revolve ELSE S_fly)

DisplayNode(V) ==
    LET a == setAttribute(Element("Display", EmptyMap, << >>),
                          "axisIsDrawn", BoolString(V.axisIsDrawn))
        b == setAttribute(a, "gridIsDrawn", BoolString(V.gridIsDrawn))
        c == setAttribute(b, "FPSIsDisplayed", BoolString(V.FPSIsDisplayed))
        d == setAttribute(c, "cameraIsEdited", BoolString(V.cameraIsEdited_))
    IN  setAttribute(d, "zBufferIsDisplayed", BoolString(V.zBufferIsDisplayed))

GeometryNode_AlwaysSize(V) ==
    LET g == setAttribute(Element("Geometry", EmptyMap, << >>),
                          "fullScreen", BoolString(V.fullScreen_))
    IN  setAttribute(setAttribute(setAttribute(setAttribute(g,
                "width", number(V.tlw.width)), "height", number(V.tlw.height)),
                "posX", number(V.tlw.pos.x)), "posY", number(V.tlw.pos.y))

GeometryNode(V) ==
    LET g == setAttribute(Element("Geometry", EmptyMap, << >>),
                          "fullScreen", BoolString(V.fullScreen_))
    IN  IF V.fullScreen_
        THEN setAttribute(setAttribute(g,
                "prevPosX", number(V.prevPos_.x)), "prevPosY", number(V.prevPos_.y))
        ELSE setAttribute(setAttribute(setAttribute(setAttribute(g,
                "width", number(V.tlw.width)), "height", number(V.tlw.height)),
                "posX", number(V.tlw.pos.x)), "posY", number(V.tlw.pos.y))

\* The camera as domElement() saves it: with the zClippingCoefficient()
\* that was there before the camera was edited
CameraNode(V) ==
    CameraDomElement(
        IF V.cameraIsEdited_
        THEN [V EXCEPT !.zClippingCoefficient = V.previousCameraZClippingCoefficient_]
        ELSE V)

\* The viewer that domElement() leaves: an edited camera has a coefficient
\* of 5.0 again
domElementLeaves(V) ==
    IF V.cameraIsEdited_
    THEN [V EXCEPT !.zClippingCoefficient = EditedZClippingCoefficient]
    ELSE V

\* QGLViewer::domElement("QGLViewer", document): the document it returns
domElement(V) ==
    LET de == setAttribute(Element("QGLViewer", EmptyMap, << >>),
                           "version", QGLViewerVersionString)
        sections == <<StateNode(V), DisplayNode(V), GeometryNode(V), CameraNode(V)>>
                    \o (IF V.manipulatedFrame_ # NULL THEN <<FrameDomElement(V)>> ELSE << >>)
    IN  [de EXCEPT !.children = sections]

\* The loop on the children of a State element
RECURSIVE InitColors(_, _)
InitColors(V, chs) ==
    IF chs = << >> THEN V
    ELSE InitColors(
             IF Head(chs).tagName = "foregroundColor"
             THEN [V EXCEPT !.foregroundColor = QColorFromDom(Head(chs)).value]
             ELSE IF Head(chs).tagName = "backgroundColor"
             THEN [V EXCEPT !.backgroundColor = QColorFromDom(Head(chs)).value]
             ELSE V,
             Tail(chs))

\* initFromDOMElement: child.tagName() == "State"
InitState(R, child) ==
    [setStereoDisplay(R, boolFromDom(child, "stereo", FALSE).value) EXCEPT
        !.V = InitColors(
                  [@ EXCEPT !.T = IF /\ attribute(child, "cameraMode", S_revolve) = S_fly
                                     /\ cameraIsInRevolveMode(@)
                                  THEN toggleCameraMode(@) ELSE @],
                  child.children)]

\* initFromDOMElement: child.tagName() == "Display"
InitDisplay(R, child) ==
    LET V1 == [R.V EXCEPT
                 !.axisIsDrawn = boolFromDom(child, "axisIsDrawn", FALSE).value,
                 !.gridIsDrawn = boolFromDom(child, "gridIsDrawn", FALSE).value,
                 !.FPSIsDisplayed = boolFromDom(child, "FPSIsDisplayed", FALSE).value,
                 !.zBufferIsDisplayed = boolFromDom(child, "zBufferIsDisplayed", FALSE).value]
    IN  [R EXCEPT !.V = setCameraIsEdited(V1, boolFromDom(child, "cameraIsEdited", FALSE).value)]

InitGeometry_SizeFirst(R, child) ==
    LET V1 == [R.V EXCEPT
                 !.tlw.width = intFromDom(child, "width", 600).value,
                 !.tlw.height = intFromDom(child, "height", 400).value,
                 !.tlw.pos = QPoint(intFromDom(child, "posX", 0).value,
                                    intFromDom(child, "posY", 0).value)]
    IN  [R EXCEPT !.V = setFullScreen(V1, boolFromDom(child, "fullScreen", FALSE).value)]

\* initFromDOMElement: child.tagName() == "Geometry"
InitGeometry(R, child) ==
    LET V1 == setFullScreen(R.V, boolFromDom(child, "fullScreen", FALSE).value)
    IN  [R EXCEPT !.V =
           IF V1.fullScreen_
           THEN [V1 EXCEPT !.prevPos_ = QPoint(intFromDom(child, "prevPosX", 0).value,
                                               intFromDom(child, "prevPosY", 0).value)]
           ELSE [V1 EXCEPT
                   !.tlw.width = intFromDom(child, "width", 600).value,
                   !.tlw.height = intFromDom(child, "height", 400).value,
                   !.tlw.pos = QPoint(intFromDom(child, "posX", 0).value,
                                      intFromDom(child, "posY", 0).value)]]

\* initFromDOMElement: what one child of the root element does
InitSection(R, child) ==
    CASE child.tagName = "State" -> InitState(R, child)
      [] child.tagName = "Display" -> InitDisplay(R, child)
      [] child.tagName = "Geometry" -> InitGeometry(R, child)
      [] child.tagName = "Camera" ->
            [R EXCEPT !.V = CameraInitFromDOMElement(@, child)]
      [] child.tagName = "ManipulatedFrame" /\ R.V.manipulatedFrame_ # NULL ->
            [R EXCEPT !.V = FrameInitFromDOMElement(@, child)]
      [] OTHER -> R

\* initFromDOMElement: the loop on the children of the root element
RECURSIVE InitSections(_, _)
InitSections(R, children) ==
    IF children = << >> THEN R
    ELSE InitSections(InitSection(R, Head(children)), Tail(children))

\* QGLViewer::initFromDOMElement(element), called on viewer V
initFromDOMElement(V, element) == InitSections(Ret(V, 0, TRUE), element.children)

\* ---------------------------------------------------------------------
\* The state file and saveStateToFile() / restoreStateFromFile()

\* Default colors of initializeGL()
DefaultForegroundColor == QColor(180, 180, 180)
DefaultBackgroundColor == QColor(51, 51, 51)

\* The size and place of a new top level widget
DefaultWidget == Widget(640, 480, QPoint(0, 0), FALSE)

\* A viewer after defaultConstructor() and initializeGL(), when init() is
\* called (updateGLOK_ false) or later (updateGLOK_ true).  prevPos_ is not
\* initialized by the constructor: any value.
FreshViewer(formatStereo, updateGLOK, frame, prevPos) ==
    [T |-> DefaultTables,
     manipulatedFrame_ |-> frame,
     frame |-> 0,
     axisIsDrawn |-> FALSE,
     gridIsDrawn |-> FALSE,
     FPSIsDisplayed |-> FALSE,
     zBufferIsDisplayed |-> FALSE,
     cameraIsEdited_ |-> FALSE,
     stereo_ |-> FALSE,
     fullScreen_ |-> FALSE,
     prevPos_ |-> prevPos,
     tlw |-> DefaultWidget,
     foregroundColor |-> DefaultForegroundColor,
     backgroundColor |-> DefaultBackgroundColor,
     zClippingCoefficient |-> DefaultZClippingCoefficient,
     previousCameraZClippingCoefficient_ |-> DefaultZClippingCoefficient,
     formatStereo |-> formatStereo,
     updateGLOK_ |-> updateGLOK,
     stateFileName_ |-> ".qglviewer.xml"]

\* The file system at stateFileName(): what QFileInfo and QFile answer, and
\* what the file holds; writer is the viewer that saved it.  A file that
\* saveStateToFile() creates can be read.
File(kind, readable, opens, dirExists, mkdirOk, wellFormed, root, writer) ==
    [kind |-> kind, readable |-> readable, opens |-> opens,
     dirExists |-> dirExists, mkdirOk |-> mkdirOk,
     wellFormed |-> wellFormed, root |-> root, writer |-> writer]

\* QDomDocument::documentElement() of a document that has no content
NullElement == Element("", EmptyMap, << >>)

\* The writer of a file that no viewer of the model saved
NoWriter == [stateFileName_ |-> ""]

\* No file at stateFileName(), in a directory that can be written
NoFile == File("absent", FALSE, TRUE, TRUE, TRUE, FALSE, NullElement, NoWriter)

\* doc.setContent(&f); doc.documentElement()
documentElement(D) == IF D.wellFormed THEN D.root ELSE NullElement

\* QGLViewer::saveStateToFile(), on viewer V with file system D
saveStateToFile(V, D) ==
    IF V.stateFileName_ = "" THEN [R |-> Ret(V, 0, TRUE), D |-> D]
    ELSE IF D.kind = "dir" THEN [R |-> Ret(V, 1, TRUE), D |-> D]
    ELSE IF ~D.dirExists /\ ~D.mkdirOk THEN [R |-> Ret(V, 1, TRUE), D |-> D]
    ELSE IF D.opens
    THEN [R |-> Ret(domElementLeaves(V), 0, TRUE),
          D |-> [D EXCEPT !.kind = "file", !.dirExists = TRUE, !.wellFormed = TRUE,
                          !.readable = IF D.kind = "absent" THEN TRUE ELSE @,
                          !.root = domElement(V), !.writer = V]]
    ELSE [R |-> Ret(V, 1, TRUE), D |-> [D EXCEPT !.dirExists = TRUE]]

\* QGLViewer::restoreStateFromFile(), on viewer V with file system D
restoreStateFromFile(V, D) ==
    IF V.stateFileName_ = "" THEN Ret(V, 0, FALSE)
    ELSE IF D.kind # "file" THEN Ret(V, 0, FALSE)
    ELSE IF ~D.readable THEN Ret(V, 1, FALSE)
    ELSE IF D.opens
    THEN [initFromDOMElement(V, documentElement(D)) EXCEPT !.value = TRUE]
    ELSE Ret(V, 1, FALSE)

\* The fields of a viewer kept in the variable qglviewer: all but the binding
\* tables and manipulatedFrame_, which have their own variables
Stored(V) == [f \in (DOMAIN V) \ {"T", "manipulatedFrame_"} |-> V[f]]

\* The viewer as the calls below take it
This == [T |-> Cur, manipulatedFrame_ |-> manipulatedFrame_] @@ qglviewer

\* A call of the persistence layer: the viewer and the file system it was
\* made on, the document it was given, the boxes it opened, what it returned
Call(op, before, diskBefore, doc, boxes, value) ==
    [op |-> op, before |-> before, disk |-> diskBefore, doc |-> doc,
     boxes |-> boxes, value |-> value]

NoCall == Call("construct", NULL, NULL, NullElement, 0, TRUE)

\* A call of a DomUtils reader: the element, the name of the attribute, the
\* default value, and what it gave
DomCall(fn, e, name, defValue, result) ==
    [fn |-> fn, e |-> e, name |-> name, defValue |-> defValue, result |-> result]

NoDomCall == DomCall("none", NullElement, "", FALSE, FromDom(FALSE, 0))

\* The persisted state after defaultConstructor(), with no state file
\* The rest of the viewer after defaultConstructor()
\* A QTimer: whether it isActive(), and the time left before its timeout()
Timer(active, left) == [active |-> active, left |-> left]

\* A displayMessage() call and the time that passed since
Display(message, delay, since) == [message |-> message, delay |-> delay, since |-> since]

NoDisplay == Display("", 0, 0)

InitMessage ==
    /\ message_ = ""
    /\ displayMessage_ = FALSE
    /\ messageTimer_ = Timer(FALSE, 0)
    /\ lastDisplay = NoDisplay

\* The quotient n / float(d)
Quotient(n, d) == [n |-> n, d |-> d]

\* width() and height()
Size(width, height) == [width |-> width, height |-> height]

GL_NONE == "GL_NONE"

\* The texture fields after defaultConstructor(): no texture, 0.0 for the
\* two coordinates
NoBufferTexture ==
    [bufferTextureId_ |-> 0,
     bufferTextureMaxU_ |-> Quotient(0, 1), bufferTextureMaxV_ |-> Quotient(0, 1),
     bufferTextureWidth_ |-> 0, bufferTextureHeight_ |-> 0,
     previousBufferTextureFormat_ |-> GL_NONE,
     previousBufferTextureInternalFormat_ |-> GL_NONE,
     allocated |-> Size(0, 0)]

InitTexture ==
    /\ widget = Size(DefaultWidget.width, DefaultWidget.height)
    /\ bufferTexture = NoBufferTexture

\* The window, as long as it never left the normal state
InitWindow == normalPos = << >>

\* animationPeriod() after defaultConstructor(): setAnimationPeriod(40)
AnimationPeriod == 40

\* A timer of the viewer: its id and the time to its next event
QTimerOf(id, left) == [id |-> id, left |-> left]

\* The animation after defaultConstructor(): animationTimerId_ = 0 and
\* stopAnimation(), which kills no timer
InitAnimation ==
    /\ animationStarted_ = FALSE
    /\ animationTimerId_ = 0
    /\ timers = {}
    /\ animated = 0
    /\ sinceAnimate = AnimationPeriod

\* The visual hints after defaultConstructor()
InitHints ==
    /\ visualHint_ = 0
    /\ hintTimers = {}

GL_MODELVIEW == "GL_MODELVIEW"
GL_PROJECTION == "GL_PROJECTION"
GL_TEXTURE == "GL_TEXTURE"
MatrixModes == {GL_MODELVIEW, GL_PROJECTION, GL_TEXTURE}

\* The attributes that glPushAttrib(GL_ALL_ATTRIB_BITS) saves, but the
\* matrix mode: the capabilities enabled and the values set
AttribNames == {"lineWidth", "color", "material", "texEnv", "blendFunc", "texBinding"}
Attrib(enabled, values) == [enabled |-> enabled, values |-> values]

\* An OpenGL state: the matrix mode, the three matrix stacks (top first),
\* the attributes and the attribute stack (top first)
GLState(matrixMode, stack, attrib, saved) ==
    [matrixMode |-> matrixMode, stack |-> stack, attrib |-> attrib, saved |-> saved]

\* The state of a new context
NewGLState ==
    GLState(GL_MODELVIEW, [m \in MatrixModes |-> <<"identity">>],
            Attrib({}, [n \in AttribNames |-> "default"]), << >>)

InitGL ==
    /\ gl = NewGLState
    /\ glEntry = NewGLState

InitScene == InitWindow /\ InitAnimation /\ InitHints /\ InitGL

InitView ==
    /\ userZClippingCoefficient = DefaultZClippingCoefficient
    /\ InitMessage
    /\ InitTexture
    /\ grabsMouse = {}
    /\ pressedOn = NULL
    /\ InitScene

InitPersist ==
    /\ InitView
    /\ qglviewer = Stored(FreshViewer(FALSE, FALSE, NULL, QPoint(0, 0)))
    /\ disk = NoFile
    /\ lastCall = NoCall
    /\ nCalls = 0
    /\ domCall = NoDomCall

\* The state of otherVars after defaultConstructor()
InitOther == InitSelect /\ InitPath /\ InitPersist

\* The binding tables after defaultConstructor()
InitTables ==
    /\ mouseBinding_ = DefaultTables.mouse
    /\ wheelBinding_ = DefaultTables.wheel
    /\ clickBinding_ = DefaultTables.click
    /\ lastOp = NoOp
    /\ nOps = 0

InitBinding ==
    /\ InitTables
    /\ InitMouse
    /\ InitOther

CallSetMouseBinding ==
    \E bs \in DragStates, h \in MouseHandlers, a \in DragActions, wc \in BOOLEAN :
        /\ nOps < MaxOps
        /\ SetTables(setMouseBinding(Cur, bs, h, a, wc))
        /\ lastOp' = Op("setMouseBinding", bs, h, a, wc, FALSE, NoButton)
        /\ nOps' = nOps + 1
        /\ UNCHANGED <<mouseVars, otherVars>>

CallSetMouseBindingClick ==
    \E bs \in ClickStates, ca \in ClickArgActions, dc \in BOOLEAN, bb \in BeforeStates :
        /\ nOps < MaxOps
        /\ SetTables(setMouseBindingClick(Cur, bs, ca, dc, bb))
        /\ lastOp' = Op("setMouseBindingClick", bs, CAMERA, ca, TRUE, dc, bb)
        /\ nOps' = nOps + 1
        /\ UNCHANGED <<mouseVars, otherVars>>

CallSetWheelBinding ==
    \E bs \in WheelStates, h \in MouseHandlers, a \in WheelArgActions :
        /\ nOps < MaxOps
        /\ SetTables(setWheelBinding(Cur, bs, h, a, TRUE))
        /\ lastOp' = Op("setWheelBinding", bs, h, a, TRUE, FALSE, NoButton)
        /\ nOps' = nOps + 1
        /\ UNCHANGED <<mouseVars, otherVars>>

CallSetHandlerStateKey ==
    \E h \in MouseHandlers, bs \in StateKeys :
        /\ nOps < MaxOps
        /\ SetTables(setHandlerStateKey(Cur, h, bs))
        /\ lastOp' = Op("setHandlerStateKey", bs, h, NO_MOUSE_ACTION, TRUE, FALSE, NoButton)
        /\ nOps' = nOps + 1
        /\ UNCHANGED <<mouseVars, otherVars>>

CallToggleCameraMode ==
    /\ nOps < MaxOps
    /\ SetTables(toggleCameraMode(Cur))
    /\ lastOp' = Op("toggleCameraMode", NoButton, CAMERA, NO_MOUSE_ACTION, TRUE, FALSE, NoButton)
    /\ nOps' = nOps + 1
    /\ UNCHANGED <<mouseVars, otherVars>>

NextBinding ==
    \/ CallSetMouseBinding
    \/ CallSetMouseBindingClick
    \/ CallSetWheelBinding
    \/ CallSetHandlerStateKey
    \/ CallToggleCameraMode

SpecBinding == InitBinding /\ [][NextBinding]_vars

(***************************************************************************)
(* The mouse events.  The viewer's tables are those of a constructed       *)
(* viewer, or of one configured by a call of setHandlerStateKey or         *)
(* toggleCameraMode; the events do not change them.                        *)
(***************************************************************************)
MouseButtons == {LeftButton, MidButton, RightButton}

Modifiers == {NoButton, ShiftButton, ControlButton}

Grabbers == {mg, mf}

\* The configuration calls made before the events begin.
ConfigOps ==
    { NoOp,
      Op("setHandlerStateKey", ShiftButton, CAMERA, NO_MOUSE_ACTION, TRUE, FALSE, NoButton) }

ConfigTables(o) ==
    CASE o.op = "setHandlerStateKey" ->
             setHandlerStateKey(DefaultTables, o.handler, o.buttonState)
      [] o.op = "toggleCameraMode" -> toggleCameraMode(DefaultTables)
      [] OTHER -> DefaultTables

InitEvents ==
    /\ \E o \in ConfigOps :
          /\ lastOp = o
          /\ nOps = IF o = NoOp THEN 0 ELSE 1
          /\ mouseBinding_ = ConfigTables(o).mouse
          /\ wheelBinding_ = ConfigTables(o).wheel
          /\ clickBinding_ = ConfigTables(o).click
    /\ InitMouse
    /\ InitOther

\* A mouse button goes down: mousePressEvent(e)
MousePress ==
    \E b \in MouseButtons, mods \in Modifiers, found \in BOOLEAN :
        /\ BitAnd(buttons, b) = 0
        /\ LET state == BitOr(mods, buttons)
               stateAfter == BitOr(state, b)
               o == mousePressEvent(Cur, CurGrabber, manipulatedFrame_,
                                    state, stateAfter, found)
           IN  /\ action_' = IF o.on # NULL THEN startAction(action_, o.on, o.started)
                             ELSE action_
               /\ lastEvent' = Event("press", mods, b, buttons, FALSE, o)
        /\ buttons' = BitOr(buttons, b)
        /\ UNCHANGED <<bindingVars, otherVars, mouseGrabber_, mouseGrabberIsAManipulatedFrame_,
                       mouseGrabberIsAManipulatedCameraFrame_, disabledMouseGrabbers_,
                       manipulatedFrame_, mouseTracking>>

\* The second press of a double click: mouseDoubleClickEvent(e)
MouseDoubleClick ==
    \E b \in MouseButtons, mods \in Modifiers, found \in BOOLEAN :
        /\ BitAnd(buttons, b) = 0
        /\ LET state == BitOr(mods, buttons)
               stateAfter == BitOr(state, b)
               o == mouseDoubleClickEvent(Cur, CurGrabber, state, stateAfter, found)
           IN  lastEvent' = Event("doubleClick", mods, b, buttons, FALSE, o)
        /\ buttons' = BitOr(buttons, b)
        /\ UNCHANGED <<bindingVars, otherVars, mouseGrabber_, mouseGrabberIsAManipulatedFrame_,
                       mouseGrabberIsAManipulatedCameraFrame_, disabledMouseGrabbers_,
                       manipulatedFrame_, action_, mouseTracking>>

\* A mouse button goes up: mouseReleaseEvent(e).  `grabbing` are the grabbers
\* whose checkIfGrabsMouse() sets grabsMouse() at the position of the event.
MouseRelease ==
    \E b \in MouseButtons, grabbing \in SUBSET Grabbers :
        /\ BitAnd(buttons, b) = b
        /\ LET o == mouseReleaseEvent(CurGrabber, action_, manipulatedFrame_)
           IN  /\ action_' = IF o.receiver \in Frames THEN endAction(action_, o.receiver)
                             ELSE action_
               /\ lastEvent' = Event("release", NoButton, b, buttons,
                                     mouseGrabber_ \in grabbing, o)
        /\ SetGrabber(GrabberAfterRelease(CurGrabber, grabbing, disabledMouseGrabbers_))
        /\ buttons' = BitAndNot(buttons, b)
        /\ UNCHANGED <<bindingVars, otherVars, disabledMouseGrabbers_, manipulatedFrame_,
                       mouseTracking>>

\* The pointer moves: mouseMoveEvent(e)
MouseMove ==
    \E grabbing \in SUBSET Grabbers :
        /\ LET r == mouseMoveEvent(CurGrabber, action_, manipulatedFrame_,
                                   mouseTracking, grabbing, disabledMouseGrabbers_)
           IN  /\ SetGrabber(r.G)
               /\ lastEvent' = Event("move", NoButton, NoButton, buttons,
                                     mouseGrabber_ \in grabbing,
                                     Outcome(r.receiver, NULL, NO_MOUSE_ACTION, NoClick,
                                             r.redraw, FALSE))
        /\ UNCHANGED <<bindingVars, otherVars, disabledMouseGrabbers_, manipulatedFrame_,
                       action_, buttons, mouseTracking>>

\* The wheel turns: wheelEvent(e)
MouseWheel ==
    \E mods \in Modifiers :
        /\ LET state == BitOr(mods, buttons)
               o == wheelEvent(Cur, CurGrabber, manipulatedFrame_, state)
           IN  /\ action_' = IF o.on # NULL
                             THEN endAction(startAction(action_, o.on, o.started), o.on)
                             ELSE action_
               /\ lastEvent' = Event("wheel", mods, NoButton, buttons, FALSE, o)
        /\ UNCHANGED <<bindingVars, otherVars, mouseGrabber_, mouseGrabberIsAManipulatedFrame_,
                       mouseGrabberIsAManipulatedCameraFrame_, disabledMouseGrabbers_,
                       manipulatedFrame_, buttons, mouseTracking>>

\* setMouseGrabber(mouseGrabber), called by the application
CallSetMouseGrabber ==
    \E g \in Grabbers \cup {NULL} :
        /\ SetGrabber(setMouseGrabber(CurGrabber, g, disabledMouseGrabbers_))
        /\ lastEvent' = NoEvent
        /\ UNCHANGED <<bindingVars, otherVars, disabledMouseGrabbers_, manipulatedFrame_,
                       action_, buttons, mouseTracking>>

\* setMouseGrabberIsEnabled(mouseGrabber, enabled)
CallSetMouseGrabberIsEnabled ==
    \E g \in {mg}, enabled \in BOOLEAN :
        /\ disabledMouseGrabbers_' = IF enabled THEN disabledMouseGrabbers_ \ {g}
                                     ELSE disabledMouseGrabbers_ \cup {g}
        /\ lastEvent' = NoEvent
        /\ UNCHANGED <<bindingVars, otherVars, mouseGrabber_, mouseGrabberIsAManipulatedFrame_,
                       mouseGrabberIsAManipulatedCameraFrame_, manipulatedFrame_,
                       action_, buttons, mouseTracking>>

\* setManipulatedFrame(frame)
CallSetManipulatedFrame ==
    \E f \in {NULL, mf} :
        /\ manipulatedFrame_' = f
        /\ lastEvent' = NoEvent
        /\ UNCHANGED <<bindingVars, otherVars, mouseGrabber_, mouseGrabberIsAManipulatedFrame_,
                       mouseGrabberIsAManipulatedCameraFrame_, disabledMouseGrabbers_,
                       action_, buttons, mouseTracking>>

\* QWidget::setMouseTracking(enable)
CallSetMouseTracking ==
    \E enable \in BOOLEAN :
        /\ mouseTracking' = enable
        /\ lastEvent' = NoEvent
        /\ UNCHANGED <<bindingVars, otherVars, mouseGrabber_, mouseGrabberIsAManipulatedFrame_,
                       mouseGrabberIsAManipulatedCameraFrame_, disabledMouseGrabbers_,
                       manipulatedFrame_, action_, buttons>>

NextEvents ==
    \/ MousePress
    \/ MouseDoubleClick
    \/ MouseRelease
    \/ MouseMove
    \/ MouseWheel
    \/ CallSetMouseGrabber
    \/ CallSetManipulatedFrame

SpecEvents == InitEvents /\ [][NextEvents]_vars

(***************************************************************************)
(* Properties of the binding table                                         *)
(***************************************************************************)
HasMouseButton(bs) == BitAnd(bs, MouseButtonMask) # 0

\* The last call was a drag setMouseBinding that the setter accepts.
AcceptedDrag(o) ==
    /\ o.op = "setMouseBinding"
    /\ HasMouseButton(o.buttonState)
    /\ ~(o.handler = FRAME /\ o.action \in CameraOnlyActions)

\* The last call was a click setMouseBinding that the setter accepts.
AcceptedClick(o) ==
    /\ o.op = "setMouseBindingClick"
    /\ HasMouseButton(o.buttonState)
    /\ ~(o.buttonBefore # NoButton /\ ~o.doubleClick)

\* A binding request the setters reject.
Rejected(o) ==
    \/ o.op = "setMouseBinding" /\ ~AcceptedDrag(o)
    \/ o.op = "setMouseBindingClick" /\ ~AcceptedClick(o)
    \/ /\ o.op = "setWheelBinding"
       /\ \/ o.action \notin {ZOOM, MOVE_FORWARD, MOVE_BACKWARD, NO_MOUSE_ACTION}
          \/ o.handler = FRAME /\ o.action \notin {ZOOM, NO_MOUSE_ACTION}

PlainClickKey(bs) == ClickActionPrivate(bs, FALSE, NoButton)

\* C1: right after an accepted setMouseBinding(combo, target, action), whatever
\* calls came before, mouseAction(combo) is that action and mouseHandler(combo)
\* that target.
C1_SetThenLookup ==
    AcceptedDrag(lastOp) =>
        /\ mouseAction(Cur, lastOp.buttonState) = lastOp.action
        /\ mouseHandler(Cur, lastOp.buttonState) = lastOp.handler

\* C1 witness: a second call rebinds LeftButton (ROTATE on CAMERA by default, or
\* whatever the first call made of it) to ZOOM on FRAME.
C1_Witness ==
    /\ nOps = 2
    /\ AcceptedDrag(lastOp)
    /\ lastOp.buttonState = LeftButton
    /\ lastOp.handler = FRAME
    /\ lastOp.action = ZOOM

\* C2: no combo is both a key of the drag table and the key of a click binding
\* with doubleClick = false and no prior button.
C2_MutualExclusion ==
    \A k \in DOMAIN mouseBinding_ : PlainClickKey(k) \notin DOMAIN clickBinding_

\* C3: an accepted drag binding on K removes exactly the click binding
\* (K, false, none) and leaves all other click bindings in place; an accepted
\* click binding removes the drag binding on K only when set with
\* doubleClick = false and no prior button, and otherwise leaves the drag table
\* unchanged.
C3_Step ==
    /\ AcceptedDrag(lastOp') =>
          /\ DOMAIN clickBinding_' = DOMAIN clickBinding_ \ {PlainClickKey(lastOp'.buttonState)}
          /\ \A k \in DOMAIN clickBinding_' : clickBinding_'[k] = clickBinding_[k]
    /\ AcceptedClick(lastOp') =>
          IF ~lastOp'.doubleClick /\ lastOp'.buttonBefore = NoButton
          THEN /\ DOMAIN mouseBinding_' = DOMAIN mouseBinding_ \ {lastOp'.buttonState}
               /\ \A k \in DOMAIN mouseBinding_' : mouseBinding_'[k] = mouseBinding_[k]
          ELSE mouseBinding_' = mouseBinding_

C3_FrameEffect == [][C3_Step]_vars

\* C3 witness: Shift+Left carries the default plain SELECT click binding; a
\* first call adds a double-click binding on it, a second call binds a drag
\* action on it: the plain click binding is gone, the double-click one stays.
C3_Witness ==
    /\ nOps = 2
    /\ AcceptedDrag(lastOp)
    /\ lastOp.buttonState = ShiftButton + LeftButton
    /\ PlainClickKey(ShiftButton + LeftButton) \notin DOMAIN clickBinding_
    /\ ClickActionPrivate(ShiftButton + LeftButton, TRUE, NoButton) \in DOMAIN clickBinding_

\* C4: every rejected binding request leaves the three tables as they were.
C4_Step ==
    Rejected(lastOp') => UNCHANGED <<mouseBinding_, wheelBinding_, clickBinding_>>

C4_RejectedIsNoOp == [][C4_Step]_vars

\* C4 witness: a wheel binding with a disallowed action has been requested.
C4_Witness ==
    /\ nOps = 2
    /\ lastOp.op = "setWheelBinding"
    /\ lastOp.action = ROTATE
    /\ Rejected(lastOp)

\* C5: each drag binding has a mouse button in its key, no FRAME drag binding
\* has a camera-only action, every wheel action is ZOOM, MOVE_FORWARD,
\* MOVE_BACKWARD or NO_MOUSE_ACTION, and every FRAME wheel action is ZOOM or
\* NO_MOUSE_ACTION.
C5_TablesWellFormed ==
    /\ \A k \in DOMAIN mouseBinding_ :
          /\ HasMouseButton(k)
          /\ mouseBinding_[k].handler = FRAME =>
                mouseBinding_[k].action \notin
                    {MOVE_FORWARD, MOVE_BACKWARD, ROLL, LOOK_AROUND, ZOOM_ON_REGION}
    /\ \A k \in DOMAIN wheelBinding_ :
          /\ wheelBinding_[k].action \in {ZOOM, MOVE_FORWARD, MOVE_BACKWARD, NO_MOUSE_ACTION}
          /\ wheelBinding_[k].handler = FRAME =>
                wheelBinding_[k].action \in {ZOOM, NO_MOUSE_ACTION}

\* C5 witness: MOVE_FORWARD has been requested for the FRAME wheel, after a
\* call that changed the tables.
C5_Witness ==
    /\ nOps = 2
    /\ lastOp.op = "setWheelBinding"
    /\ lastOp.handler = FRAME
    /\ lastOp.action = MOVE_FORWARD
    /\ Cur # DefaultTables

\* C6: every click-binding key with doubleClick = false has no prior button,
\* and every click-binding key has a mouse button in its combo.
C6_ClickKeysWellFormed ==
    \A k \in DOMAIN clickBinding_ :
        /\ (~k.doubleClick) => k.buttonBefore = NoButton
        /\ HasMouseButton(k.buttonState)

\* C6 witness: a first call binds CENTER_SCENE to the double click of Left
\* with Right held before, and setHandlerStateKey then moves this CAMERA
\* binding to the Shift state key, prior button included.
C6_Witness ==
    /\ nOps = 2
    /\ lastOp.op = "setHandlerStateKey"
    /\ lastOp.handler = CAMERA
    /\ lastOp.buttonState = ShiftButton
    /\ ClickActionPrivate(ShiftButton + LeftButton, TRUE, RightButton) \in DOMAIN clickBinding_

\* C7: clickAction(combo, doubleClick, priorButton) is the action bound to
\* exactly the key (combo, doubleClick, priorButton), and NO_CLICK_ACTION when
\* that key is not bound.
C7_ClickLookupExact ==
    \A bs \in ClickStates, dc \in BOOLEAN, bb \in BeforeStates :
        LET cap == ClickActionPrivate(bs, dc, bb)
        IN  clickAction(Cur, bs, dc, bb) =
                IF cap \in DOMAIN clickBinding_ THEN clickBinding_[cap]
                ELSE NO_CLICK_ACTION

(***************************************************************************)
(* Properties of the dispatch of mouse events                              *)
(***************************************************************************)
\* The click key of an event as the user makes it: the state keys and the
\* button that goes down, and the buttons held before.
UserClickKey(e, doubleClick) ==
    ClickActionPrivate(e.mods + e.button, doubleClick, e.before)

\* The viewer's own state: what an ignored event must leave alone.
viewerVars ==
    <<bindingVars, mouseGrabber_, mouseGrabberIsAManipulatedFrame_,
      mouseGrabberIsAManipulatedCameraFrame_, disabledMouseGrabbers_,
      manipulatedFrame_, action_, mouseTracking>>

\* C8: a press is resolved in the order grabber, click binding, drag binding.
\* Without grabber, a bound click key has its click action performed and no
\* action is started on any frame, also when the drag table has an entry for
\* the pressed combo; with a grabber no click action is performed and the
\* camera frame is not put in action from the table.
C8_Step ==
    lastEvent'.ev = "press" =>
        IF mouseGrabber_ = NULL
        THEN UserClickKey(lastEvent', FALSE) \in DOMAIN clickBinding_ =>
                /\ lastEvent'.click = clickBinding_[UserClickKey(lastEvent', FALSE)]
                /\ lastEvent'.on = NULL
                /\ action_' = action_
        ELSE /\ lastEvent'.click = NoClick
             /\ lastEvent'.receiver \in {mouseGrabber_, NULL}
             /\ lastEvent'.on \in {mouseGrabber_, NULL}
             /\ action_'[camFrame] = action_[camFrame]

C8_PressOrder == [][C8_Step]_vars

\* C8 witness: Shift+Left is pressed without grabber while Shift+Left is both
\* a drag binding and the SELECT click binding; SELECT has been performed.
C8_Witness ==
    /\ lastEvent.ev = "press"
    /\ lastEvent.mods + lastEvent.button = ShiftButton + LeftButton
    /\ lastEvent.before = NoButton
    /\ lastEvent.click = SELECT
    /\ (ShiftButton + LeftButton) \in DOMAIN mouseBinding_
    /\ mouseGrabber_ = NULL

\* The one owner of a release.
ReleaseOwner ==
    IF mouseGrabber_ # NULL THEN mouseGrabber_
    ELSE IF action_[camFrame] # NO_MOUSE_ACTION THEN camFrame
    ELSE IF manipulatedFrame_ # NULL /\ action_[manipulatedFrame_] # NO_MOUSE_ACTION
         THEN manipulatedFrame_
    ELSE NULL

\* C9: a release goes to exactly one owner: the active grabber, else the
\* camera frame if it is dragged, else the free target if it is dragged, else
\* it is ignored; a redraw is requested in all cases; a grabber that got the
\* release and no longer grabs the mouse is deactivated.
C9_Step ==
    lastEvent'.ev = "release" =>
        /\ lastEvent'.receiver = ReleaseOwner
        /\ lastEvent'.ignored = (ReleaseOwner = NULL)
        /\ lastEvent'.redraw
        /\ \A f \in Frames \ {ReleaseOwner} : action_'[f] = action_[f]
        /\ (mouseGrabber_ # NULL /\ ~lastEvent'.grabs) => mouseGrabber_' = NULL
        /\ (mouseGrabber_ # NULL /\ lastEvent'.grabs) => mouseGrabber_' = mouseGrabber_

C9_ReleaseOwner == [][C9_Step]_vars

\* C9 witness: a release nobody owns has been ignored, with a redraw.
C9_Witness ==
    /\ lastEvent.ev = "release"
    /\ lastEvent.receiver = NULL
    /\ lastEvent.ignored
    /\ lastEvent.redraw

\* C10: without grabber a double click performs the click action bound to
\* (state keys + double-clicked button, doubleClick = true, buttons held
\* before) and no other; when that key is unbound the event is ignored and
\* changes nothing, whatever is bound to the same button without prior button.
C10_Step ==
    (lastEvent'.ev = "doubleClick" /\ mouseGrabber_ = NULL) =>
        LET key == UserClickKey(lastEvent', TRUE)
        IN  IF key \in DOMAIN clickBinding_
            THEN /\ lastEvent'.click = clickBinding_[key]
                 /\ ~lastEvent'.ignored
            ELSE /\ lastEvent'.click = NoClick
                 /\ lastEvent'.ignored
                 /\ ~lastEvent'.redraw
                 /\ UNCHANGED viewerVars

C10_DoubleClick == [][C10_Step]_vars

\* C10 witness: a button is double-clicked while another is held; the key with
\* that prior button is unbound, the same button without prior button is
\* bound, and the event has been ignored.
C10_Witness ==
    /\ lastEvent.ev = "doubleClick"
    /\ lastEvent.before # NoButton
    /\ lastEvent.ignored
    /\ lastEvent.click = NoClick
    /\ ClickActionPrivate(lastEvent.mods + lastEvent.button, TRUE, NoButton)
           \in DOMAIN clickBinding_

(***************************************************************************)
(* Selection: select(point) = beginSelection, drawWithNames, endSelection, *)
(* postSelection.  drawWithNames() is the application's: it leaves hit     *)
(* records of four GLuint in the select buffer, one name pushed per hit:   *)
(* number of names (1), minimum depth, maximum depth, name.                *)
(***************************************************************************)
\* Number of hit records explored.
MaxHits == 3

\* The depths and names the hits are explored with.
HitDepths == {3, 10}

HitNames == {5, 7, 9}

\* The GLuint values of one hit record
HitRecord(zMin, name) == <<1, zMin, zMin, name>>

\* The select buffers drawWithNames() leaves: up to MaxHits hit records
RECURSIVE SelectBuffers(_)
SelectBuffers(n) ==
    IF n = 0 THEN {<< >>}
    ELSE SelectBuffers(n - 1) \cup
         {b \o HitRecord(z, id) :
             b \in {x \in SelectBuffers(n - 1) : Len(x) = 4 * (n - 1)},
             z \in HitDepths, id \in HitNames}

\* selectBuffer()[i], with the index from 0 of the source
BufAt(buf, i) == buf[i + 1]

\* glRenderMode(GL_RENDER): the number of hit records in the select buffer
nbHitsOf(buf) == Len(buf) \div 4

\* setSelectedName(int) of a GLuint: the conversion to a 32 bit int
GLuintToInt(u) == IF u <= 2147483647 THEN u ELSE u - 2147483647 - 2147483647 - 2

\* endSelection with <= in the depth test: the last of the nearest hits wins.
RECURSIVE endSelectionLoop_LastWins(_, _, _, _)
endSelectionLoop_LastWins(buf, i, zMin, name) ==
    IF i >= nbHitsOf(buf) THEN name
    ELSE IF BufAt(buf, 4 * i + 1) <= zMin
         THEN endSelectionLoop_LastWins(buf, i + 1, BufAt(buf, 4 * i + 1),
                                        GLuintToInt(BufAt(buf, 4 * i + 3)))
         ELSE endSelectionLoop_LastWins(buf, i + 1, zMin, name)

\* The loop of endSelection from hit i on, with the zMin and the selected
\* name so far
RECURSIVE endSelectionLoop(_, _, _, _)
endSelectionLoop(buf, i, zMin, name) ==
    IF i >= nbHitsOf(buf) THEN name
    ELSE IF BufAt(buf, 4 * i + 1) < zMin
         THEN endSelectionLoop(buf, i + 1, BufAt(buf, 4 * i + 1),
                               GLuintToInt(BufAt(buf, 4 * i + 3)))
         ELSE endSelectionLoop(buf, i + 1, zMin, name)

\* endSelection(point): the selectedName() it sets
endSelection(buf) ==
    IF nbHitsOf(buf) <= 0 THEN -1
    ELSE endSelectionLoop(buf, 1, BufAt(buf, 1), GLuintToInt(BufAt(buf, 3)))

\* select(point), with the hit records that drawWithNames() leaves
Select ==
    \E buf \in SelectBuffers(MaxHits) :
        /\ selectBuffer_' = buf
        /\ selectedName_' = endSelection(buf)
        /\ UNCHANGED <<bindingVars, mouseVars, pathVars, stateVars>>

InitSelection ==
    /\ InitBinding

NextSelection == Select

SpecSelection == InitSelection /\ [][NextSelection]_vars

\* The hits of a select buffer, in recording order: <<minimum depth, name>>
HitsOf(buf) == [i \in 1..(Len(buf) \div 4) |-> <<buf[4 * i - 2], buf[4 * i]>>]

\* C11: selectedName() is -1 when drawWithNames() recorded no hit, and
\* otherwise the name of the hit of smallest minimum depth, the first such
\* hit in recording order when several have that depth.
C11_NearestHit ==
    LET hits == HitsOf(selectBuffer_)
    IN  IF Len(hits) = 0 THEN selectedName_ = -1
        ELSE \E i \in 1..Len(hits) :
                /\ \A j \in 1..Len(hits) : hits[i][1] <= hits[j][1]
                /\ \A j \in 1..(i - 1) : hits[j][1] > hits[i][1]
                /\ selectedName_ = hits[i][2]

\* C11 witness: the hits (5, depth 10), (7, depth 3) and (9, depth 3) have
\* been recorded, and 7 is selected.
C11_Witness ==
    /\ HitsOf(selectBuffer_) = << <<10, 5>>, <<3, 7>>, <<3, 9>> >>
    /\ selectedName_ = 7

(***************************************************************************)
(* Camera paths: keyPressEvent on a path key.  The Camera and its          *)
(* KeyFrameInterpolators are collaborators: a path is known by its number  *)
(* of key frames and by whether its interpolation is started.              *)
(***************************************************************************)
\* Number of key presses explored.
MaxKeys == 4

\* The times (ms) between two key presses explored.
KeyDelays == {100, 250}

\* The state keys of a path key press: playPathStateKey(), addKFStateKey_, or
\* any other state.
PathStates == {"play", "record", "other"}

\* The state of one viewer that a path key press works on
PathState(prev, kfi) == [previousPathId |-> prev, kfi |-> kfi]

\* Camera::addKeyFrameToPath(index)
addKeyFrameToPath(kfi, index) ==
    [kfi EXCEPT ![index].numberOfKeyFrames = @ + 1]

\* Camera::deletePath(index)
deletePath(kfi, index) == [kfi EXCEPT ![index] = NoKFI]

\* Camera::playPath(index): starts the interpolation of an existing path
playPath(kfi, index) ==
    IF kfi[index].numberOfKeyFrames = 0 THEN kfi
    ELSE [kfi EXCEPT ![index].interpolationIsStarted = TRUE]

\* Camera::resetPath(index): stops and rewinds an existing path
resetPath(kfi, index) ==
    IF kfi[index].numberOfKeyFrames = 0 THEN kfi
    ELSE [kfi EXCEPT ![index].interpolationIsStarted = FALSE]

\* KeyFrameInterpolator::resetInterpolation()
resetInterpolation(kfi, index) ==
    [kfi EXCEPT ![index].interpolationIsStarted = FALSE]

\* QTime::restart() of doublePress, dt ms after the previous key press: the
\* time elapsed since the last restart (DoublePressDelay: that or more)
Elapsed(since, dt) ==
    IF since + dt >= DoublePressDelay THEN DoublePressDelay ELSE since + dt

\* (elapsed < 250) && (index==previousPathId_)
IsDoublePress(elapsed, index, previousPathId) ==
    elapsed < DoublePressDelay /\ index = previousPathId

\* keyPressEvent, state == playPathStateKey()
PlayPress(P, index, elapsed) ==
    IF IsDoublePress(elapsed, index, P.previousPathId)
    THEN [P |-> PathState(index, resetPath(P.kfi, index)), call |-> "resetPath"]
    ELSE LET stopped ==
                 IF /\ index # P.previousPathId
                    /\ P.previousPathId \in PathIndexes
                    /\ P.kfi[P.previousPathId].numberOfKeyFrames > 0
                    /\ P.kfi[P.previousPathId].interpolationIsStarted
                 THEN resetInterpolation(P.kfi, P.previousPathId)
                 ELSE P.kfi
         IN  [P |-> PathState(index, playPath(stopped, index)), call |-> "playPath"]

\* keyPressEvent, state == addKFStateKey_
RecordPress(P, index, elapsed) ==
    IF IsDoublePress(elapsed, index, P.previousPathId)
    THEN IF P.kfi[index].numberOfKeyFrames > 0
         THEN [P |-> PathState(index, deletePath(P.kfi, index)), call |-> "deletePath"]
         ELSE [P |-> PathState(index, P.kfi), call |-> "none"]
    ELSE LET nullBefore == P.kfi[index].numberOfKeyFrames = 0
             added == addKeyFrameToPath(P.kfi, index)
         IN  [P |-> PathState(index,
                              [added EXCEPT ![index].connected = IF nullBefore THEN @ + 1 ELSE @]),
              call |-> "addKeyFrameToPath"]

\* keyPressEvent(e) for the key of a path index, on one viewer
keyPressEvent(P, index, state, elapsed) ==
    CASE state = "play" -> PlayPress(P, index, elapsed)
      [] state = "record" -> RecordPress(P, index, elapsed)
      [] OTHER -> [P |-> P, call |-> "none"]

\* The age of a viewer's last play or record press, dt ms later
Aged(pp, dt) == [pp EXCEPT !.age = Elapsed(@, dt)]

\* A path key is pressed on a viewer, dt ms after the previous key press:
\* keyPressEvent(e)
KeyPressPath ==
    \E v \in Viewers, index \in PathIndexes, state \in PathStates, dt \in KeyDelays :
        /\ nKeys < MaxKeys
        /\ LET elapsed == Elapsed(doublePress, dt)
               r == keyPressEvent(PathState(previousPathId_[v], kfi_[v]),
                                  index, state, elapsed)
               restarts == state \in {"play", "record"}
           IN  /\ previousPathId_' = [previousPathId_ EXCEPT ![v] = r.P.previousPathId]
               /\ kfi_' = [kfi_ EXCEPT ![v] = r.P.kfi]
               /\ doublePress' = IF restarts THEN 0 ELSE elapsed
               /\ lastPathPress' =
                     [w \in Viewers |->
                        IF w = v /\ restarts
                        THEN PathPress(index, state, r.call = "addKeyFrameToPath", 0)
                        ELSE Aged(lastPathPress[w], dt)]
               /\ lastKey' = KeyPress(v, index, state, dt, r.call)
               /\ pressedIds' = IF restarts
                                THEN [pressedIds EXCEPT ![v] = @ \cup {index}]
                                ELSE pressedIds
        /\ nKeys' = nKeys + 1
        /\ UNCHANGED <<bindingVars, mouseVars, selectVars, stateVars>>

\* The interpolation of a path reaches the end of the path and stops.
InterpolationEnds ==
    \E v \in Viewers, index \in PathIndexes :
        /\ kfi_[v][index].interpolationIsStarted
        /\ kfi_' = [kfi_ EXCEPT ![v][index].interpolationIsStarted = FALSE]
        /\ lastKey' = NoKeyPress
        /\ UNCHANGED <<bindingVars, mouseVars, selectVars, stateVars, previousPathId_,
                       doublePress, lastPathPress, pressedIds, nKeys>>

\* doublePress is a static QTime that is never started before the first
\* restart(): the first time elapsed is any.
InitPaths ==
    /\ InitTables
    /\ InitMouse
    /\ InitSelect
    /\ previousPathId_ = [v \in Viewers |-> 0]
    /\ kfi_ = [v \in Viewers |-> [i \in PathIndexes |-> NoKFI]]
    /\ doublePress \in {0, DoublePressDelay}
    /\ lastPathPress = [v \in Viewers |-> NoPathPress]
    /\ lastKey = NoKeyPress
    /\ pressedIds = [v \in Viewers |-> {}]
    /\ nKeys = 0
    /\ InitPersist

NextPaths == KeyPressPath \/ InterpolationEnds

SpecPaths == InitPaths /\ [][NextPaths]_vars

\* The key press of this step follows, less than DoublePressDelay ms later, a
\* play or record press of the same viewer on the same index.
ClosePress ==
    LET prev == lastPathPress[lastKey'.viewer]
    IN  /\ prev.index = lastKey'.index
        /\ prev.age + lastKey'.dt < DoublePressDelay

\* The key press of this step follows, less than DoublePressDelay ms later, a
\* play or record press on the same index, on whichever viewer.
ClosePressAnywhere ==
    \E w \in Viewers :
        /\ lastPathPress[w].index = lastKey'.index
        /\ lastPathPress[w].age + lastKey'.dt < DoublePressDelay

\* C12: a record press that does not closely follow a press on the same
\* index appends one key frame to the path (so do two record presses 250 ms
\* or more apart); the second of two record presses less than 250 ms apart
\* leaves the path without key frame: deleted if it had key frames before
\* the first press, empty as before otherwise.
C12_Step ==
    lastKey'.state = "record" =>
        LET v == lastKey'.viewer
            i == lastKey'.index
            prev == lastPathPress[v]
        IN  /\ ~ClosePressAnywhere =>
                  kfi_'[v][i].numberOfKeyFrames = kfi_[v][i].numberOfKeyFrames + 1
            /\ (ClosePress /\ prev.kind = "record" /\ prev.added) =>
                  kfi_'[v][i].numberOfKeyFrames = 0

C12_RecordTwice == [][C12_Step]_vars

\* C13: a play press resets the path exactly when the previous play or record
\* press was on the same index and less than 250 ms earlier; otherwise it
\* plays the path.
C13_Step ==
    lastKey'.state = "play" =>
        /\ ClosePress => lastKey'.call = "resetPath"
        /\ ~ClosePressAnywhere => lastKey'.call = "playPath"

C13_PlayOrReset == [][C13_Step]_vars

\* C14: after a play press on index i that is no double press and that
\* follows play and record presses on other indexes only, no other path of
\* the camera is interpolating.
C14_Step ==
    (/\ lastKey'.state = "play"
     /\ ~ClosePressAnywhere
     /\ lastKey'.call = "playPath"
     /\ lastKey'.index \notin pressedIds[lastKey'.viewer]) =>
        \A j \in PathIndexes \ {lastKey'.index} :
            ~kfi_'[lastKey'.viewer][j].interpolationIsStarted

C14_OnlyOnePlays == [][C14_Step]_vars

(***************************************************************************)
(* DomUtils (domUtils.h): the readers of attributes, called on elements    *)
(* that hold, miss or spoil the attribute read.                            *)
(***************************************************************************)

\* Texts of a boolean attribute that are neither "true" nor "false"
BadBoolTexts ==
    { <<"y", "e", "s">>, <<"1">>, << >>, <<"t", "r", "u">>,
      <<"t", "r", "u", "e", "s">>, <<"o", "f", "f">> }

\* The spellings of a word in lower and upper case letters
RECURSIVE Casings(_)
Casings(s) ==
    IF s = << >> THEN { << >> }
    ELSE { Append(f, c) : f \in Casings(Front(s)),
                          c \in {s[Len(s)], UpperCase[IndexIn(LowerCase, s[Len(s)])]} }

BoolTexts == Casings(S_true) \cup Casings(S_false) \cup BadBoolTexts

\* A text of an attribute: whether Qt reads a value in it, and which
Sample(text, ok, value) == [text |-> text, ok |-> ok, value |-> value]

\* Texts of an integer attribute
IntSamples ==
    { Sample(<<"4", "2">>, TRUE, 42), Sample(<<"-", "7">>, TRUE, -7),
      Sample(<<"+", "3">>, TRUE, 3), Sample(<<"0">>, TRUE, 0),
      Sample(<<"0", "0", "7">>, TRUE, 7), Sample(<<"8", "0", "0">>, TRUE, 800),
      Sample(<<"2", "5", "5">>, TRUE, 255),
      Sample(<<"4", "x">>, FALSE, 0), Sample(<<"x">>, FALSE, 0),
      Sample(<< >>, FALSE, 0), Sample(<<"-">>, FALSE, 0),
      Sample(<<"4", ".", "5">>, FALSE, 0), Sample(<<"4", "-">>, FALSE, 0) }

IntDefaults == {0, 600, -1}

\* Texts of a float attribute
FloatSamples ==
    { Sample(<<"1", ".", "5">>, TRUE, Float(15, 1)),
      Sample(<<"1", ".", "5", "0">>, TRUE, Float(15, 1)),
      Sample(<<"-", "2">>, TRUE, Float(-2, 0)),
      Sample(<<"1", "5">>, TRUE, Float(15, 0)),
      Sample(<<"0", ".", "2", "5">>, TRUE, Float(25, 2)),
      Sample(<<"-", "0", ".", "5">>, TRUE, Float(-5, 1)),
      Sample(<<"n", "a", "n">>, TRUE, NaN),
      Sample(<<"x">>, FALSE, Float(0, 0)),
      Sample(<< >>, FALSE, Float(0, 0)),
      Sample(<<"1", ".", "5", "x">>, FALSE, Float(0, 0)),
      Sample(<<"-">>, FALSE, Float(0, 0)),
      Sample(<<"1", ".", "2", ".", "3">>, FALSE, Float(0, 0)),
      Sample(<<"1", ",", "5">>, FALSE, Float(0, 0)) }

FloatDefaults == {Float(0, 0), Float(5, 0), Float(173, 2)}

\* Texts of the red, green and blue attributes of a color element
ColorTexts == { <<"2", "5", "5">>, <<"0">>, <<"4", "2">>, <<"x">>, <<"4", "x">>, << >> }

\* In place of a text: the attribute is not there
Missing == <<"missing">>

\* An element with the attributes given in texts but the Missing ones
RECURSIVE ElementWith(_, _, _)
ElementWith(tagName, names, texts) ==
    IF names = << >> THEN Element(tagName, EmptyMap, << >>)
    ELSE LET e == ElementWith(tagName, Front(names), Front(texts))
         IN  IF texts[Len(texts)] = Missing THEN e
             ELSE setAttribute(e, names[Len(names)], texts[Len(texts)])

\* DomUtils::boolFromDom(e, "a", defValue)
BoolFromDom ==
    \E t \in BoolTexts \cup {Missing}, defValue \in BOOLEAN :
        LET e == ElementWith("e", <<"a">>, <<t>>)
        IN  /\ domCall' = DomCall("boolFromDom", e, "a", defValue,
                                  boolFromDom(e, "a", defValue))
            /\ UNCHANGED <<bindingVars, mouseVars, selectVars, pathVars, persistVars, viewVars>>

\* DomUtils::intFromDom(e, "a", defValue)
IntFromDom ==
    \E t \in {s.text : s \in IntSamples} \cup {Missing}, defValue \in IntDefaults :
        LET e == ElementWith("e", <<"a">>, <<t>>)
        IN  /\ domCall' = DomCall("intFromDom", e, "a", defValue,
                                  intFromDom(e, "a", defValue))
            /\ UNCHANGED <<bindingVars, mouseVars, selectVars, pathVars, persistVars, viewVars>>

\* DomUtils::floatFromDom(e, "a", defValue)
FloatFromDom ==
    \E t \in {s.text : s \in FloatSamples} \cup {Missing}, defValue \in FloatDefaults,
       isnanDefined \in BOOLEAN :
        LET e == ElementWith("e", <<"a">>, <<t>>)
        IN  /\ domCall' = DomCall("floatFromDom", e, "a", defValue,
                                  floatFromDom(e, "a", defValue, isnanDefined))
            /\ UNCHANGED <<bindingVars, mouseVars, selectVars, pathVars, persistVars, viewVars>>

\* DomUtils::QColorFromDom(e)
ColorFromDom ==
    \E r \in ColorTexts \cup {Missing}, g \in ColorTexts \cup {Missing},
       b \in ColorTexts \cup {Missing} :
        LET e == ElementWith("e", <<"red", "green", "blue">>, <<r, g, b>>)
        IN  /\ domCall' = DomCall("QColorFromDom", e, "", 0, QColorFromDom(e))
            /\ UNCHANGED <<bindingVars, mouseVars, selectVars, pathVars, persistVars, viewVars>>

InitDom == InitBinding

NextDom == BoolFromDom \/ IntFromDom \/ FloatFromDom \/ ColorFromDom

SpecDom == InitDom /\ [][NextDom]_vars

\* What a reader must give for element e: the value that the text of the
\* attribute stands for in samples, and the default value otherwise
Expected(samples, e, name, defValue) ==
    IF /\ hasAttribute(e, name)
       /\ \E s \in samples : s.text = e.attributes[name] /\ s.ok
    THEN (CHOOSE s \in samples : s.text = e.attributes[name]).value
    ELSE defValue

BoolSamples ==
    { Sample(t, TRUE, TRUE) : t \in Casings(S_true) }
        \cup { Sample(t, TRUE, FALSE) : t \in Casings(S_false) }

\* C20: every reader of DomUtils gives its default value when the attribute
\* is missing or malformed: boolFromDom gives true for any casing of
\* "true", false for any casing of "false" and the default value otherwise;
\* intFromDom and floatFromDom give the number that the text stands for and
\* the default value for any other text; QColorFromDom gives 0 for each
\* component that is missing or malformed.
C20_Defaults ==
    LET c == domCall
    IN  /\ c.fn = "boolFromDom" =>
              c.result.value = Expected(BoolSamples, c.e, c.name, c.defValue)
        /\ c.fn = "intFromDom" =>
              c.result.value = Expected(IntSamples, c.e, c.name, c.defValue)
        /\ c.fn = "floatFromDom" =>
              c.result.value = Expected(FloatSamples, c.e, c.name, c.defValue)
        /\ c.fn = "QColorFromDom" =>
              c.result.value = QColor(Expected(IntSamples, c.e, "red", 0),
                                      Expected(IntSamples, c.e, "green", 0),
                                      Expected(IntSamples, c.e, "blue", 0))

\* boolFromDom has read "tRuE" with the default value false
C20_Witness ==
    /\ domCall.fn = "boolFromDom"
    /\ domCall.e.attributes = ("a" :> <<"t", "R", "u", "E">>)
    /\ domCall.defValue = FALSE
    /\ domCall.result.value = TRUE

(***************************************************************************)
(* State persistence: saveStateToFile() when a viewer is closed, a new     *)
(* viewer when the application is started again, restoreStateFromFile()    *)
(* in its init().                                                          *)
(***************************************************************************)

\* At most MaxCalls saves, restores and new viewers
MaxCalls == 3

\* Sizes and places of the top level widget
Geometries == {DefaultWidget, Widget(800, 600, QPoint(10, -20), FALSE)}

\* Values of the uninitialized prevPos_ of a new viewer
PrevPositions == {QPoint(0, 0), QPoint(7, 9)}

\* A zClippingCoefficient() set by the application: 2.0
UserZClippingCoefficient == Float(2, 0)

\* The viewers the setters give, from a viewer that is shown (updateGLOK_)
SetViewers ==
    { LET V0 == FreshViewer(fs, TRUE, frame, QPoint(0, 0))
          V1 == [V0 EXCEPT !.axisIsDrawn = flags[1], !.gridIsDrawn = flags[2],
                           !.FPSIsDisplayed = flags[3], !.zBufferIsDisplayed = flags[4],
                           !.zClippingCoefficient = UserZClippingCoefficient,
                           !.frame = IF frame = NULL THEN 0 ELSE 1,
                           !.tlw = g,
                           !.T = IF fly THEN toggleCameraMode(@) ELSE @]
          V2 == setStereoDisplay(Ret(V1, 0, TRUE), stereo).V
          V3 == IF edit THEN setCameraIsEdited(V2, TRUE) ELSE V2
      IN  IF full THEN setFullScreen(V3, TRUE) ELSE V3 :
      fs \in BOOLEAN, frame \in {NULL, mf}, flags \in [1..4 -> BOOLEAN],
      g \in Geometries, fly \in BOOLEAN, stereo \in BOOLEAN,
      edit \in BOOLEAN, full \in BOOLEAN }

\* What the state file can be when a viewer finds it: no file, a directory,
\* a file that cannot be read or opened, a file that is not XML, a file
\* written by some viewer
FoundFiles ==
    LET doc == domElement(setCameraIsEdited(FreshViewer(FALSE, TRUE, NULL, QPoint(0, 0)), TRUE))
    IN  { File("absent", FALSE, opens, dirExists, mkdirOk, FALSE, NullElement, NoWriter) :
              opens \in BOOLEAN, dirExists \in BOOLEAN, mkdirOk \in BOOLEAN }
        \cup { File("dir", readable, FALSE, TRUE, TRUE, FALSE, NullElement, NoWriter) :
              readable \in BOOLEAN }
        \cup { File("file", readable, opens, TRUE, TRUE, FALSE, NullElement, NoWriter) :
              readable \in BOOLEAN, opens \in BOOLEAN }
        \cup { File("file", readable, opens, TRUE, TRUE, TRUE, doc, NoWriter) :
              readable \in BOOLEAN, opens \in BOOLEAN }

\* The viewers that meet the files of FoundFiles
FileViewers ==
    { [V EXCEPT !.stateFileName_ = name] :
        V \in { FreshViewer(FALSE, FALSE, NULL, QPoint(0, 0)),
                setCameraIsEdited(
                    [FreshViewer(TRUE, TRUE, mf, QPoint(0, 0)) EXCEPT !.axisIsDrawn = TRUE],
                    TRUE) },
        name \in {"", ".qglviewer.xml"} }

\* The viewer whose camera, state file and DOM element are followed
ThisViewer == CHOOSE v \in Viewers : \A w \in Viewers : v <= w

\* connectAllCameraKFIInterpolatedSignals that disconnects nothing.
connectAllCameraKFIInterpolatedSignals_ConnectOnly(kfi, connection) ==
    [i \in PathIndexes |->
        IF kfi[i].numberOfKeyFrames = 0 \/ ~connection THEN kfi[i]
        ELSE [kfi[i] EXCEPT !.connected = @ + 1]]

\* connectAllCameraKFIInterpolatedSignals(connection), on the paths kfi of
\* camera(): `connected` counts the connections of a path's interpolated()
\* to the updateGL() of the viewer.  connect() adds one; disconnect() removes
\* all there are.
connectAllCameraKFIInterpolatedSignals(kfi, connection) ==
    [i \in PathIndexes |->
        IF kfi[i].numberOfKeyFrames = 0 THEN kfi[i]
        ELSE [kfi[i] EXCEPT !.connected = IF connection THEN @ + 1 ELSE 0]]

\* The camera() of the viewer itself, given to setCamera()
ThisCamera == "camera()"

\* The paths of a Camera that holds none
NoPaths == [i \in PathIndexes |-> NoKFI]

\* A path of n key frames that the viewer is not connected to
NewPath(n) == KFI(n, FALSE, 0)

\* The cameras given to setCamera(): camera() itself, a new Camera, and one
\* on which the application has recorded path 2, of two key frames
Cameras == {ThisCamera, "new", "recorded"}

\* The paths of a camera other than camera()
OtherCamera(camera) ==
    IF camera = "recorded" THEN [NoPaths EXCEPT ![2] = NewPath(2)] ELSE NoPaths

\* setCamera(camera), the paths of camera() and their connections (lines
\* 630-632)
setCameraKFI(kfi, camera) ==
    connectAllCameraKFIInterpolatedSignals(
        IF camera = ThisCamera
        THEN connectAllCameraKFIInterpolatedSignals(kfi, FALSE)
        ELSE OtherCamera(camera),
        TRUE)

\* Camera::initFromDOMElement(), the paths: each KeyFrameInterpolator child
\* makes a new path of its index, with the key frames it holds
RECURSIVE CameraPathsFromDOM(_, _)
CameraPathsFromDOM(kfi, children) ==
    IF children = << >> THEN kfi
    ELSE CameraPathsFromDOM(
            IF /\ Head(children).tagName = "KeyFrameInterpolator"
               /\ intFromDom(Head(children), "index", 0).value \in PathIndexes
            THEN [kfi EXCEPT ![intFromDom(Head(children), "index", 0).value] =
                                 NewPath(Len(Head(children).children))]
            ELSE kfi,
            Tail(children))

\* initFromDOMElement(element), the paths and their connections: each
\* Camera section disconnects the paths, loads the camera and connects the
\* paths (lines 3530-3535).  The paths that the section does not hold are
\* kept by the camera or not (keeps).
RECURSIVE LoadCameraKFI(_, _, _)
LoadCameraKFI(kfi, children, keeps) ==
    IF children = << >> THEN kfi
    ELSE LoadCameraKFI(
            IF Head(children).tagName = "Camera"
            THEN connectAllCameraKFIInterpolatedSignals(
                     CameraPathsFromDOM(
                         IF keeps THEN connectAllCameraKFIInterpolatedSignals(kfi, FALSE)
                         ELSE NoPaths,
                         Head(children).children),
                     TRUE)
            ELSE kfi,
            Tail(children), keeps)

\* The paths of ThisViewer become those that initFromDOMElement() makes of
\* the sections `children`
LoadsPaths(children) ==
    \E keeps \in BOOLEAN :
        kfi_' = [kfi_ EXCEPT ![ThisViewer] = LoadCameraKFI(@, children, keeps)]

\* The element that restoreStateFromFile() gives to initFromDOMElement(),
\* NullElement when it returns before
RestoredElement(V, D) ==
    IF V.stateFileName_ # "" /\ D.kind = "file" /\ D.readable /\ D.opens
    THEN documentElement(D)
    ELSE NullElement

\* The viewer becomes V
SetThis(V) ==
    /\ mouseBinding_' = V.T.mouse
    /\ wheelBinding_' = V.T.wheel
    /\ clickBinding_' = V.T.click
    /\ manipulatedFrame_' = V.manipulatedFrame_
    /\ qglviewer' = Stored(V)

\* What the persistence calls leave alone
persistFrame ==
    <<lastOp, nOps, mouseGrabber_, mouseGrabberIsAManipulatedFrame_,
      mouseGrabberIsAManipulatedCameraFrame_, disabledMouseGrabbers_, action_,
      buttons, mouseTracking, lastEvent, selectVars, pathVars, domVars, viewVars>>

\* The same for the calls that load the camera: all but kfi_
loadFrame ==
    <<lastOp, nOps, mouseGrabber_, mouseGrabberIsAManipulatedFrame_,
      mouseGrabberIsAManipulatedCameraFrame_, disabledMouseGrabbers_, action_,
      buttons, mouseTracking, lastEvent, selectVars, previousPathId_, doublePress,
      lastPathPress, lastKey, pressedIds, nKeys, domVars, viewVars>>

\* The call op, on document doc, leaves R
Returns(op, doc, R) ==
    /\ SetThis(R.V)
    /\ lastCall' = Call(op, This, disk, doc, R.boxes, R.value)

\* The call op leaves the viewer of S.R and the file system S.D
Saves(op, S) ==
    /\ Returns(op, NullElement, S.R)
    /\ disk' = S.D

\* saveStateToFile()
SaveStateToFile ==
    /\ nCalls < MaxCalls
    /\ Saves("saveStateToFile", saveStateToFile(This, disk))
    /\ nCalls' = nCalls + 1
    /\ UNCHANGED persistFrame

\* restoreStateFromFile()
RestoreStateFromFile ==
    /\ nCalls < MaxCalls
    /\ Returns("restoreStateFromFile", documentElement(disk),
               restoreStateFromFile(This, disk))
    /\ LoadsPaths(RestoredElement(This, disk).children)
    /\ nCalls' = nCalls + 1
    /\ UNCHANGED <<disk, loadFrame>>

\* The application is started again, on the same display: a new viewer,
\* which init() may give a manipulatedFrame()
NewViewer ==
    /\ nCalls < MaxCalls
    /\ \E updateGLOK \in BOOLEAN, prevPos \in PrevPositions :
          SetThis(FreshViewer(qglviewer.formatStereo, updateGLOK,
                              manipulatedFrame_, prevPos))
    /\ lastCall' = NoCall
    /\ nCalls' = nCalls + 1
    /\ UNCHANGED <<disk, persistFrame>>

\* Viewer V with file system D, when nothing was called yet
InitViewer(V, D) ==
    /\ mouseBinding_ = V.T.mouse
    /\ wheelBinding_ = V.T.wheel
    /\ clickBinding_ = V.T.click
    /\ lastOp = NoOp
    /\ nOps = 0
    /\ mouseGrabber_ = NULL
    /\ mouseGrabberIsAManipulatedFrame_ = FALSE
    /\ mouseGrabberIsAManipulatedCameraFrame_ = FALSE
    /\ disabledMouseGrabbers_ = {}
    /\ manipulatedFrame_ = V.manipulatedFrame_
    /\ action_ = [f \in Frames |-> NO_MOUSE_ACTION]
    /\ buttons = NoButton
    /\ mouseTracking = FALSE
    /\ lastEvent = NoEvent
    /\ InitSelect
    /\ InitPath
    /\ qglviewer = Stored(V)
    /\ disk = D
    /\ lastCall = NoCall
    /\ nCalls = 0
    /\ domCall = NoDomCall
    /\ InitView

InitPersistence ==
    \/ \E V \in SetViewers : InitViewer(V, NoFile)
    \/ \E V \in FileViewers, D \in FoundFiles : InitViewer(V, D)

NextPersistence == SaveStateToFile \/ RestoreStateFromFile \/ NewViewer

SpecPersistence == InitPersistence /\ [][NextPersistence]_vars

\* A viewer as defaultConstructor() and initializeGL() leave it
IsFresh(V) ==
    V = FreshViewer(V.formatStereo, V.updateGLOK_, V.manipulatedFrame_, V.prevPos_)

\* The flags and the camera mode of a viewer
FlagsOf(V) ==
    <<V.axisIsDrawn, V.gridIsDrawn, V.FPSIsDisplayed, V.zBufferIsDisplayed,
      V.cameraIsEdited_, V.stereo_, cameraIsInRevolveMode(V.T)>>

\* The geometry of a viewer: full screen and the position to come back to,
\* or the size and the position
GeometryOf(V) ==
    IF V.fullScreen_ THEN <<TRUE, V.prevPos_>>
    ELSE <<FALSE, V.tlw.width, V.tlw.height, V.tlw.pos>>

\* A new viewer has restored the file that a viewer saved
RoundTrip ==
    /\ lastCall.op = "restoreStateFromFile"
    /\ lastCall.value
    /\ lastCall.disk.writer # NoWriter
    /\ IsFresh(lastCall.before)

\* C15: a freshly constructed viewer that loads what domElement() made of
\* a viewer has the flags of that viewer (axis, grid, FPS, z-buffer, camera
\* edition, stereo), its camera mode and its geometry (full screen and the
\* saved position, or width, height and position).
C15_RoundTrip ==
    RoundTrip =>
        /\ FlagsOf(This) = FlagsOf(lastCall.disk.writer)
        /\ GeometryOf(This) = GeometryOf(lastCall.disk.writer)

\* A new viewer has restored the file of a viewer that was full screen, in
\* fly mode, in stereo, with an edited camera and a grid but no axis
C15_Witness ==
    /\ RoundTrip
    /\ lastCall.disk.writer.fullScreen_
    /\ lastCall.disk.writer.prevPos_ = QPoint(10, -20)
    /\ FlagsOf(lastCall.disk.writer) = <<FALSE, TRUE, FALSE, TRUE, TRUE, TRUE, FALSE>>
    /\ qglviewer.fullScreen_

\* The restoration cannot be successful: no file name, no file, a file that
\* cannot be read or opened, or a file that is not XML
CannotRestore(V, D) ==
    \/ V.stateFileName_ = ""
    \/ D.kind # "file"
    \/ ~D.readable
    \/ ~D.opens
    \/ ~D.wellFormed

\* C18: restoreStateFromFile() returns true only when the restoration is
\* successful: it returns false when the file name is empty, when the file
\* does not exist or cannot be read, and when it has an XML syntax error.
C18_TrueOnlyOnSuccess ==
    lastCall.op = "restoreStateFromFile" =>
        (CannotRestore(lastCall.before, lastCall.disk) => ~lastCall.value)

\* A call fails on I/O: the state path is a directory, the directory of the
\* file cannot be made, the file cannot be read, or it cannot be opened
FailsOnIO(c) ==
    /\ c.before.stateFileName_ # ""
    /\ \/ c.disk.kind = "dir"
       \/ /\ c.op = "saveStateToFile"
          /\ (~c.disk.dirExists /\ ~c.disk.mkdirOk) \/ ~c.disk.opens
       \/ /\ c.op = "restoreStateFromFile"
          /\ c.disk.kind = "file"
          /\ ~c.disk.readable \/ ~c.disk.opens

\* C19: a save or a restore that fails on I/O opens a warning box and
\* leaves the viewer (flags, geometry, bindings, camera) as it was; a
\* restore that finds no file opens no box.
C19_FailureWarns ==
    lastCall.op \in {"saveStateToFile", "restoreStateFromFile"} =>
        /\ FailsOnIO(lastCall) => (lastCall.boxes > 0 /\ This = lastCall.before)
        /\ (lastCall.op = "restoreStateFromFile" /\ lastCall.disk.kind = "absent") =>
              (lastCall.boxes = 0 /\ This = lastCall.before)

(***************************************************************************)
(* initFromDOMElement() in the init() of a new viewer, on documents that   *)
(* hold some of the sections, in any order.                                *)
(***************************************************************************)

\* At most MaxSections sections in a document
MaxSections == 2

\* A viewer in fly mode and in stereo, with colors of its own
FlyViewer ==
    [FreshViewer(TRUE, TRUE, NULL, QPoint(0, 0)) EXCEPT
        !.T = toggleCameraMode(@), !.stereo_ = TRUE,
        !.foregroundColor = QColor(255, 0, 0), !.backgroundColor = QColor(0, 0, 42)]

\* A viewer that shows everything, with an edited camera
ShowingViewer ==
    setCameraIsEdited(
        [FreshViewer(FALSE, TRUE, NULL, QPoint(0, 0)) EXCEPT
            !.axisIsDrawn = TRUE, !.gridIsDrawn = TRUE, !.FPSIsDisplayed = TRUE,
            !.zBufferIsDisplayed = TRUE], TRUE)

\* A viewer with a window of its own, and the same viewer in full screen
PlacedViewer ==
    [FreshViewer(FALSE, TRUE, NULL, QPoint(0, 0)) EXCEPT
        !.tlw = Widget(800, 600, QPoint(10, -20), FALSE)]

\* A viewer with a camera and a manipulatedFrame() of its own
MovedViewer ==
    [FreshViewer(FALSE, TRUE, mf, QPoint(0, 0)) EXCEPT
        !.zClippingCoefficient = UserZClippingCoefficient, !.frame = 1]

\* A Display section written by hand: an upper case value, a malformed
\* value, and no other attribute
EditedDisplayNode ==
    setAttribute(setAttribute(Element("Display", EmptyMap, << >>),
        "axisIsDrawn", <<"T", "R", "U", "E">>), "gridIsDrawn", <<"y", "e", "s">>)

\* The Camera section of a camera that holds path 3, of two key frames
PathsCameraNode ==
    [CameraNode(MovedViewer) EXCEPT
        !.children =
            << setAttribute(Element("KeyFrameInterpolator", EmptyMap,
                                    << Element("KeyFrame", EmptyMap, << >>),
                                       Element("KeyFrame", EmptyMap, << >>) >>),
                            "index", number(3)) >>]

\* The sections of the documents: those that domElement() makes of the
\* viewers above, one written by hand and one that the viewer does not know
SectionPool ==
    { StateNode(FlyViewer), DisplayNode(ShowingViewer), EditedDisplayNode,
      GeometryNode(PlacedViewer), GeometryNode(setFullScreen(PlacedViewer, TRUE)),
      CameraNode(MovedViewer), PathsCameraNode, FrameDomElement(MovedViewer),
      Element("Light", EmptyMap, << >>) }

RECURSIVE SectionSeqs(_)
SectionSeqs(n) ==
    IF n = 0 THEN { << >> }
    ELSE LET shorter == SectionSeqs(n - 1)
         IN  shorter \cup
             { Append(s, e) : s \in { t \in shorter : Len(t) = n - 1 },
                              e \in SectionPool }

TagsDiffer(s) == \A i, j \in DOMAIN s : i # j => s[i].tagName # s[j].tagName

\* The document of the sections s
Document(s) ==
    [setAttribute(Element("QGLViewer", EmptyMap, << >>), "version",
                  QGLViewerVersionString) EXCEPT !.children = s]

\* The documents: at most MaxSections sections, each at most once
Documents ==
    { Document(s) : s \in { t \in SectionSeqs(MaxSections) : TagsDiffer(t) } }

\* initFromDOMElement(element), called in the init() of a new viewer on one
\* of the documents D
InitFromDOMElementOf(D) ==
    /\ IsFresh(This)
    /\ \E element \in D :
          /\ Returns("initFromDOMElement", element, initFromDOMElement(This, element))
          /\ LoadsPaths(element.children)
    /\ UNCHANGED <<disk, nCalls, loadFrame>>

InitFromDOMElement == InitFromDOMElementOf(Documents)

\* The new viewers: on a display with or without stereo, shown or not yet,
\* with or without a manipulatedFrame()
InitLoad ==
    \E fs \in BOOLEAN, updateGLOK \in BOOLEAN, frame \in {NULL, mf},
       prevPos \in PrevPositions :
        InitViewer(FreshViewer(fs, updateGLOK, frame, prevPos), NoFile)

NextLoad == InitFromDOMElement

SpecLoad == InitLoad /\ [][NextLoad]_vars

\* The document has no section of this name
Lacks(element, tagName) ==
    \A i \in DOMAIN element.children : element.children[i].tagName # tagName

\* The section of this name
Section(element, tagName) ==
    element.children[CHOOSE i \in DOMAIN element.children :
                        element.children[i].tagName = tagName]

\* The zClippingCoefficient() that the application gave the camera
UserCoefficient(V) ==
    IF V.cameraIsEdited_ THEN V.previousCameraZClippingCoefficient_
    ELSE V.zClippingCoefficient

\* A new viewer has loaded a document
FreshLoad == lastCall.op = "initFromDOMElement" /\ IsFresh(lastCall.before)

Reordered(element) ==
    { [element EXCEPT !.children = [i \in DOMAIN element.children |->
                                       element.children[p[i]]]] :
      p \in Permutations(DOMAIN element.children) }

\* C17: the viewer and the camera that initFromDOMElement() gives do not
\* depend on the order of the sections of the document, the camera's
\* zClippingCoefficient() and the one that leaving the camera edition
\* restores included.
C17_OrderIndependent ==
    lastCall.op = "initFromDOMElement" =>
        \A other \in Reordered(lastCall.doc) :
            initFromDOMElement(lastCall.before, other).V = This

\* ---------------------------------------------------------------------
\* The edition of the camera

\* Camera::setZClippingCoefficient(coef), called by the application
setZClippingCoefficient(V, coef) == [V EXCEPT !.zClippingCoefficient = coef]

\* setCamera(camera), with a camera whose zClippingCoefficient() is coef
setCamera(V, coef) ==
    [V EXCEPT !.zClippingCoefficient = coef,
              !.previousCameraZClippingCoefficient_ = coef]

\* The coefficients that the application gives a camera
Coefficients ==
    {DefaultZClippingCoefficient, UserZClippingCoefficient, EditedZClippingCoefficient}

\* What the calls on the camera leave alone
editFrame == <<disk, persistFrame>>

\* setCameraIsEdited(edit)
SetCameraIsEdited ==
    /\ nCalls < MaxCalls
    /\ \E edit \in BOOLEAN :
          Returns("setCameraIsEdited", NullElement,
                  Ret(setCameraIsEdited(This, edit), 0, edit))
    /\ nCalls' = nCalls + 1
    /\ UNCHANGED editFrame

\* camera()->setZClippingCoefficient(coef), while the camera is not edited
SetZClippingCoefficient ==
    /\ nCalls < MaxCalls
    /\ ~qglviewer.cameraIsEdited_
    /\ \E coef \in Coefficients :
          /\ Returns("setZClippingCoefficient", NullElement,
                     Ret(setZClippingCoefficient(This, coef), 0, TRUE))
          /\ userZClippingCoefficient' = coef
    /\ nCalls' = nCalls + 1
    /\ UNCHANGED <<disk, lastOp, nOps, mouseGrabber_, mouseGrabberIsAManipulatedFrame_,
                   mouseGrabberIsAManipulatedCameraFrame_, disabledMouseGrabbers_,
                   action_, buttons, mouseTracking, lastEvent, selectVars, pathVars,
                   domVars, messageVars, textureVars, pointerVars, sceneVars>>

\* setCamera(camera), with a camera of the application
SetCamera ==
    /\ nCalls < MaxCalls
    /\ \E coef \in Coefficients, camera \in Cameras :
          /\ Returns("setCamera", NullElement, Ret(setCamera(This, coef), 0, TRUE))
          /\ userZClippingCoefficient' = coef
          /\ kfi_' = [kfi_ EXCEPT ![ThisViewer] = setCameraKFI(@, camera)]
    /\ nCalls' = nCalls + 1
    /\ UNCHANGED <<disk, lastOp, nOps, mouseGrabber_, mouseGrabberIsAManipulatedFrame_,
                   mouseGrabberIsAManipulatedCameraFrame_, disabledMouseGrabbers_,
                   action_, buttons, mouseTracking, lastEvent, selectVars,
                   previousPathId_, doublePress, lastPathPress, lastKey, pressedIds,
                   nKeys, domVars, messageVars, textureVars, pointerVars, sceneVars>>

InitEdit ==
    \E updateGLOK \in BOOLEAN, frame \in {NULL, mf} :
        InitViewer(FreshViewer(FALSE, updateGLOK, frame, QPoint(0, 0)), NoFile)

\* domElement("QGLViewer", document)
DomElement ==
    /\ nCalls < MaxCalls
    /\ Returns("domElement", domElement(This), Ret(domElementLeaves(This), 0, TRUE))
    /\ nCalls' = nCalls + 1
    /\ UNCHANGED editFrame

NextEdit == SetCameraIsEdited \/ SetZClippingCoefficient \/ SetCamera \/ DomElement

SpecEdit == InitEdit /\ [][NextEdit]_vars

\* C21: after setCameraIsEdited(false), whatever setCameraIsEdited calls
\* came before it, the camera's zClippingCoefficient() is the one that the
\* application gave the camera before the camera was edited.
C21_RestoresUserValue ==
    (lastCall.op = "setCameraIsEdited" /\ ~lastCall.value) =>
        qglviewer.zClippingCoefficient = userZClippingCoefficient

\* setCameraIsEdited(true) leaves a coefficient of 5.0, and
\* setCameraIsEdited(false) called on an edited camera that
\* setCameraIsEdited(true) found not edited restores the coefficient
C21_EditThenRestore ==
    /\ (lastCall.op = "setCameraIsEdited" /\ lastCall.value) =>
          qglviewer.zClippingCoefficient = EditedZClippingCoefficient
    /\ (/\ lastCall.op = "setCameraIsEdited" /\ ~lastCall.value
        /\ lastCall.before.cameraIsEdited_
        /\ lastCall.before.previousCameraZClippingCoefficient_ = userZClippingCoefficient) =>
          qglviewer.zClippingCoefficient = userZClippingCoefficient

\* domElement() was called on an edited camera
SavedEdited == lastCall.op = "domElement" /\ lastCall.before.cameraIsEdited_

\* The zClippingCoefficient that the Camera section of the last document holds
SavedCoefficient == Section(lastCall.doc, "Camera").attributes["zClippingCoefficient"]

\* C22: the Camera section that domElement() makes of an edited camera holds
\* the zClippingCoefficient() that the application gave the camera, not the
\* 5.0 of the edition, and domElement() leaves the camera's coefficient and
\* every other field of the viewer as they were.
C22_SavesUserValue ==
    /\ SavedEdited => SavedCoefficient = userZClippingCoefficient
    /\ lastCall.op = "domElement" => This = lastCall.before

\* The Camera section of an edited camera holds
\* previousCameraZClippingCoefficient_, and domElement() changes nothing but
\* the coefficient of an edited camera, which it leaves at 5.0
C22_SavesPrevious ==
    /\ SavedEdited =>
          SavedCoefficient = lastCall.before.previousCameraZClippingCoefficient_
    /\ lastCall.op = "domElement" =>
          /\ [This EXCEPT !.zClippingCoefficient = 0] =
                [lastCall.before EXCEPT !.zClippingCoefficient = 0]
          /\ This.zClippingCoefficient =
                IF This.cameraIsEdited_ THEN EditedZClippingCoefficient
                ELSE lastCall.before.zClippingCoefficient

\* ---------------------------------------------------------------------
\* toggleCameraMode() on the tables that the binding calls give

\* The state key that toggleCameraMode() reads in the tables
ToggleStateKey(T) ==
    BitAnd(IF cameraIsInRevolveMode(T) THEN mouseButtonState(T, CAMERA, ROTATE, TRUE)
           ELSE mouseButtonState(T, CAMERA, MOVE_FORWARD, TRUE),
           KeyButtonMask)

\* The five button states that toggleCameraMode() binds under a state key
ToggledStates(stateKey) ==
    { BitOr(stateKey, b) : b \in {LeftButton, MidButton, RightButton,
                                  LeftButton + MidButton, RightButton + MidButton} }

\* The button states bound to ROTATE on the CAMERA, as cameraIsInRevolveMode() looks for them
RotateStates(T) ==
    {k \in DOMAIN T.mouse : T.mouse[k] = MouseActionPrivate(CAMERA, ROTATE, TRUE)}

\* The mode changed
ModeSwapped(T, U) == cameraIsInRevolveMode(U) = ~cameraIsInRevolveMode(T)

\* The five button states under the state key that moved the camera in T
\* are bound to the camera in U
StateKeyKept(T, U) ==
    \A k \in ToggledStates(ToggleStateKey(T)) :
        k \in DOMAIN U.mouse /\ U.mouse[k].handler = CAMERA

\* Twice toggleCameraMode() on the tables of the constructor gives them back
DefaultRestored(T, U) == (T = toggleCameraMode(DefaultTables)) => (U = DefaultTables)

\* C23 as claimed: from every tables that the binding calls give,
\* toggleCameraMode() changes cameraIsInRevolveMode() and keeps the state
\* key of the camera's drag bindings, and a second call after the
\* constructor's tables restores the three tables.
C23_ToggleSwaps ==
    [][CallToggleCameraMode =>
          /\ ModeSwapped(Cur, Nxt)
          /\ StateKeyKept(Cur, Nxt)
          /\ DefaultRestored(Cur, Nxt)]_vars

\* C23 amended: toggleCameraMode() changes cameraIsInRevolveMode() when the
\* camera is in fly mode, or when every ROTATE binding of the camera is one
\* of the five that the call overwrites; it keeps the state key, and a
\* second call after the constructor's tables restores the three tables.
C23_ToggleSwapsPredefined ==
    [][CallToggleCameraMode =>
          /\ RotateStates(Cur) \subseteq ToggledStates(ToggleStateKey(Cur)) =>
                ModeSwapped(Cur, Nxt)
          /\ StateKeyKept(Cur, Nxt)
          /\ DefaultRestored(Cur, Nxt)]_vars

\* toggleCameraMode() was called twice after the constructor
C23_Witness ==
    /\ nOps = 2
    /\ lastOp.op = "toggleCameraMode"
    /\ Cur = DefaultTables

\* ---------------------------------------------------------------------
\* displayMessage() and its timer

MaxDelay == 4

\* The messages and the delays of the displayMessage() calls
Messages == {"saved", "loaded", "path deleted"}
Delays == 1..MaxDelay

\* The message state: message_, displayMessage_ and messageTimer_
MessageState(message, display, timer) ==
    [message_ |-> message, displayMessage_ |-> display, messageTimer_ |-> timer]

\* QTimer::start(msec, true) and QTimer::changeInterval(msec): the timer
\* runs for msec from now on; it stays single shot
start(msec) == Timer(TRUE, msec)
changeInterval(msec) == Timer(TRUE, msec)

\* displayMessage() that lets a running timer run
displayMessage_NoRestart(M, message, delay) ==
    MessageState(message, TRUE,
                 IF M.messageTimer_.active THEN M.messageTimer_ ELSE start(delay))

\* displayMessage(message, delay)
displayMessage(M, message, delay) ==
    MessageState(message, TRUE,
                 IF M.messageTimer_.active THEN changeInterval(delay) ELSE start(delay))

\* hideMessage(), the slot of messageTimer_'s timeout(); the single shot
\* timer is stopped
hideMessage(M) == MessageState(M.message_, FALSE, Timer(FALSE, 0))

ThisMessage == MessageState(message_, displayMessage_, messageTimer_)

SetMessage(M) ==
    /\ message_' = M.message_
    /\ displayMessage_' = M.displayMessage_
    /\ messageTimer_' = M.messageTimer_

\* What the message calls leave alone
messageFrame ==
    <<bindingVars, mouseVars, selectVars, pathVars, qglviewer, disk, lastCall,
      domVars, userZClippingCoefficient, textureVars, pointerVars, sceneVars>>

\* The application calls displayMessage(message, delay)
DisplayMessage ==
    /\ nCalls < MaxCalls
    /\ \E message \in Messages, delay \in Delays :
          /\ SetMessage(displayMessage(ThisMessage, message, delay))
          /\ lastDisplay' = Display(message, delay, 0)
    /\ nCalls' = nCalls + 1
    /\ UNCHANGED messageFrame

\* One unit of time passes while the timer runs and is not due
Tick ==
    /\ messageTimer_.active
    /\ messageTimer_.left > 0
    /\ messageTimer_' = [messageTimer_ EXCEPT !.left = @ - 1]
    /\ lastDisplay' = [lastDisplay EXCEPT !.since = @ + 1]
    /\ UNCHANGED <<message_, displayMessage_, nCalls, messageFrame>>

\* The timer is due: timeout() calls hideMessage()
Timeout ==
    /\ messageTimer_.active
    /\ messageTimer_.left = 0
    /\ SetMessage(hideMessage(ThisMessage))
    /\ UNCHANGED <<lastDisplay, nCalls, messageFrame>>

InitMessages == InitBinding

NextMessages == DisplayMessage \/ Tick \/ Timeout

SpecMessages == InitMessages /\ [][NextMessages]_vars

\* C24: after displayMessage(m, delay), m is the message; it is displayed
\* until delay has passed since that call, the last one, and hidden then:
\* never before, so never by the expiry of a message that it replaced.
C24_MessageExpiry ==
    lastDisplay # NoDisplay =>
        /\ message_ = lastDisplay.message
        /\ displayMessage_ => lastDisplay.since <= lastDisplay.delay
        /\ ~displayMessage_ => lastDisplay.since = lastDisplay.delay
        /\ lastDisplay.since < lastDisplay.delay => displayMessage_
        /\ displayMessage_ =>
              /\ messageTimer_.active
              /\ messageTimer_.left = lastDisplay.delay - lastDisplay.since

\* A message with a delay of 2 replaced a message with a delay of 1 that was
\* about to expire, and is still displayed one unit of time later
C24_Witness ==
    /\ nCalls = 2
    /\ lastDisplay.delay = 2
    /\ lastDisplay.since = 1
    /\ displayMessage_
    /\ message_ = "loaded"

\* ---------------------------------------------------------------------
\* copyBufferToTexture()

\* The sizes that the widget is given
Widths == {12, 100, 120, 130}
Heights == {16, 100}

\* The internal formats of the calls
Formats == {"GL_RGBA", "GL_DEPTH_COMPONENT"}

\* int w = 16; while (w < width()) w <<= 1;
RECURSIVE Doubled(_, _)
Doubled(w, width) == IF w < width THEN Doubled(2 * w, width) ELSE w

\* The fields after the test on the size of the texture
SizedTexture(B, S, w, h) ==
    IF w # B.bufferTextureWidth_ \/ h # B.bufferTextureHeight_
    THEN [B EXCEPT !.bufferTextureWidth_ = w,
                   !.bufferTextureHeight_ = h,
                   !.bufferTextureMaxU_ = Quotient(S.width, w),
                   !.bufferTextureMaxV_ = Quotient(S.height, h)]
    ELSE B

\* Whether copyBufferToTexture() calls glTexImage2D
TextureInit(B, w, h, internalFormat, format) ==
    \/ w # B.bufferTextureWidth_ \/ h # B.bufferTextureHeight_
    \/ B.bufferTextureId_ = 0
    \/ format # B.previousBufferTextureFormat_
    \/ internalFormat # B.previousBufferTextureInternalFormat_

\* copyBufferToTexture(internalFormat, format) on a widget of size S
copyBufferToTexture(B, S, internalFormat, format) ==
    [SizedTexture(B, S, Doubled(16, S.width), Doubled(16, S.height)) EXCEPT
        !.bufferTextureId_ = 1,
        !.previousBufferTextureFormat_ = format,
        !.previousBufferTextureInternalFormat_ = internalFormat,
        !.allocated =
            IF TextureInit(B, Doubled(16, S.width), Doubled(16, S.height),
                           internalFormat, format)
            THEN Size(Doubled(16, S.width), Doubled(16, S.height)) ELSE @]

\* What the texture calls leave alone
textureFrame ==
    <<bindingVars, mouseVars, selectVars, pathVars, qglviewer, disk,
      domVars, userZClippingCoefficient, messageVars, pointerVars, sceneVars>>

\* The widget is resized
Resize ==
    /\ nCalls < MaxCalls
    /\ \E width \in Widths, height \in Heights :
          /\ Size(width, height) # widget
          /\ widget' = Size(width, height)
    /\ lastCall' = Call("resize", NULL, NULL, NullElement, 0, TRUE)
    /\ nCalls' = nCalls + 1
    /\ UNCHANGED <<bufferTexture, textureFrame>>

\* copyBufferToTexture(internalFormat, GL_NONE)
CopyBufferToTexture ==
    /\ nCalls < MaxCalls
    /\ \E internalFormat \in Formats :
          bufferTexture' = copyBufferToTexture(bufferTexture, widget, internalFormat, GL_NONE)
    /\ lastCall' = Call("copyBufferToTexture", NULL, NULL, NullElement, 0, TRUE)
    /\ nCalls' = nCalls + 1
    /\ UNCHANGED <<widget, textureFrame>>

InitTextures ==
    /\ InitTables /\ InitMouse /\ InitSelect /\ InitPath
    /\ qglviewer = Stored(FreshViewer(FALSE, FALSE, NULL, QPoint(0, 0)))
    /\ disk = NoFile
    /\ lastCall = NoCall
    /\ nCalls = 0
    /\ domCall = NoDomCall
    /\ userZClippingCoefficient = DefaultZClippingCoefficient
    /\ InitMessage
    /\ bufferTexture = NoBufferTexture
    /\ grabsMouse = {}
    /\ pressedOn = NULL
    /\ InitScene
    /\ \E width \in Widths, height \in Heights : widget = Size(width, height)

NextTextures == Resize \/ CopyBufferToTexture

SpecTextures == InitTextures /\ [][NextTextures]_vars

\* The quotient q is n / d
QuotientIs(q, n, d) == q.n * d = n * q.d

\* The side of the texture is a power of two that is not less than n
RECURSIVE IsPowerOfTwo(_)
IsPowerOfTwo(n) == n = 1 \/ (n > 1 /\ n % 2 = 0 /\ IsPowerOfTwo(n \div 2))

\* C25: after copyBufferToTexture(), whatever resizes and calls came
\* before, bufferTextureMaxU() is width() / bufferTextureWidth_ and
\* bufferTextureMaxV() is height() / bufferTextureHeight_ for the size the
\* widget has now, and the sides of the texture are powers of two that are
\* not less than the widget's.
C25_TextureCoordinates ==
    lastCall.op = "copyBufferToTexture" =>
        /\ QuotientIs(bufferTexture.bufferTextureMaxU_, widget.width,
                      bufferTexture.bufferTextureWidth_)
        /\ QuotientIs(bufferTexture.bufferTextureMaxV_, widget.height,
                      bufferTexture.bufferTextureHeight_)
        /\ IsPowerOfTwo(bufferTexture.bufferTextureWidth_)
        /\ IsPowerOfTwo(bufferTexture.bufferTextureHeight_)
        /\ bufferTexture.bufferTextureWidth_ >= widget.width
        /\ bufferTexture.bufferTextureHeight_ >= widget.height

\* The sides of the texture, and the texture that glTexImage2D allocated,
\* are right after every copyBufferToTexture()
C25_TextureSides ==
    lastCall.op = "copyBufferToTexture" =>
        /\ IsPowerOfTwo(bufferTexture.bufferTextureWidth_)
        /\ IsPowerOfTwo(bufferTexture.bufferTextureHeight_)
        /\ bufferTexture.bufferTextureWidth_ >= widget.width
        /\ bufferTexture.bufferTextureHeight_ >= widget.height
        /\ bufferTexture.allocated =
              Size(bufferTexture.bufferTextureWidth_, bufferTexture.bufferTextureHeight_)

(***************************************************************************)
(* The mouse grabbers: presses, releases, moves and wheel turns on a       *)
(* viewer whose application sets the mouse tracking, the manipulatedFrame  *)
(* and the mouseGrabber(), and enables and disables the grabber mg.        *)
(***************************************************************************)
\* The binding tables explored: those of setDefaultMouseBindings(), and the
\* same with a second FRAME binding of the left button.
GrabTables ==
    { DefaultTables,
      setMouseBinding(DefaultTables, ShiftButton + LeftButton, FRAME, ZOOM, TRUE) }

\* The buttons and the state keys of the presses and wheel turns explored
GrabButtons == {LeftButton}

GrabInput == lastEvent'.button \in GrabButtons

\* A press of one of GrabButtons: mousePressEvent(e)
GrabPress == MousePress /\ GrabInput

\* The pointer moves to a position where the grabbers of `grabbing` grab the
\* mouse: mouseMoveEvent(e)
MouseMoveTo ==
    \E grabbing \in SUBSET Grabbers :
        /\ SetGrabber(mouseMoveEvent(CurGrabber, action_, manipulatedFrame_, mouseTracking,
                                     grabbing, disabledMouseGrabbers_).G)
        /\ lastEvent' =
              Event("move", NoButton, NoButton, buttons, mouseGrabber_ \in grabbing,
                    Outcome(mouseMoveEvent(CurGrabber, action_, manipulatedFrame_,
                                           mouseTracking, grabbing,
                                           disabledMouseGrabbers_).receiver,
                            NULL, NO_MOUSE_ACTION, NoClick,
                            mouseMoveEvent(CurGrabber, action_, manipulatedFrame_,
                                           mouseTracking, grabbing,
                                           disabledMouseGrabbers_).redraw,
                            FALSE))
        /\ grabsMouse' = grabbing
        /\ UNCHANGED <<pressedOn, sceneVars, bindingVars, selectVars, pathVars, persistVars, domVars,
                       userZClippingCoefficient, messageVars, textureVars,
                       disabledMouseGrabbers_, manipulatedFrame_, action_, buttons,
                       mouseTracking>>

InitGrab ==
    /\ \E T \in GrabTables :
          /\ mouseBinding_ = T.mouse
          /\ wheelBinding_ = T.wheel
          /\ clickBinding_ = T.click
    /\ lastOp = NoOp
    /\ nOps = 0
    /\ InitMouse
    /\ InitOther

NextGrab ==
    \/ GrabPress
    \/ MouseRelease
    \/ MouseMoveTo
    \/ MouseWheel
    \/ CallSetMouseGrabber
    \/ CallSetMouseGrabberIsEnabled
    \/ CallSetManipulatedFrame
    \/ CallSetMouseTracking

SpecGrab == InitGrab /\ [][NextGrab]_vars

\* The FRAME bindings of a table whose mouse buttons are b, whatever their
\* state keys
FrameBindingsOf(map, b) ==
    {k \in DOMAIN map : map[k].handler = FRAME /\ BitAnd(k, MouseButtonMask) = b}

\* The event of this step went to the active grabber as it is and started
\* nothing.
ForwardedRaw ==
    /\ lastEvent'.receiver = mouseGrabber_
    /\ lastEvent'.on = NULL
    /\ lastEvent'.started = NO_MOUSE_ACTION
    /\ action_' = action_

\* The event of this step started on the active grabber the action of one
\* of the bindings `hits` of `map`, and nothing when there is none.
StartedOnGrabber(map, hits) ==
    IF hits = {}
    THEN lastEvent'.on = NULL /\ lastEvent'.started = NO_MOUSE_ACTION
    ELSE /\ lastEvent'.on = mouseGrabber_
         /\ lastEvent'.receiver = mouseGrabber_
         /\ \E k \in hits : lastEvent'.started = map[k].action

\* C26: with an active grabber that is a ManipulatedFrame, a press starts on
\* it the action of a FRAME binding of mouseBinding_ whose mouse buttons are
\* the buttons held after the press, and a wheel turn the action of a FRAME
\* binding of wheelBinding_, whatever state keys the event and the binding
\* have; with a grabber that is no ManipulatedFrame the event goes to the
\* grabber as it is and starts nothing.
C26_GrabberPress ==
    [][ mouseGrabber_ # NULL =>
          /\ lastEvent'.ev = "press" =>
                IF mouseGrabberIsAManipulatedFrame_
                THEN /\ StartedOnGrabber(mouseBinding_,
                                         FrameBindingsOf(mouseBinding_, buttons'))
                     /\ action_' = IF lastEvent'.on = NULL THEN action_
                                   ELSE [action_ EXCEPT ![mouseGrabber_] = lastEvent'.started]
                ELSE ForwardedRaw
          /\ lastEvent'.ev = "wheel" =>
                IF mouseGrabberIsAManipulatedFrame_
                THEN StartedOnGrabber(wheelBinding_,
                                      {k \in DOMAIN wheelBinding_ :
                                          wheelBinding_[k].handler = FRAME})
                ELSE ForwardedRaw ]_vars

\* A press without state key has started on the grabber mf the action of a
\* binding that has one, and a wheel turn with the shift key that of a
\* binding with the control key.
C26_Witness ==
    /\ mouseGrabber_ = mf
    /\ lastEvent.on = mf
    /\ lastEvent.started # NO_MOUSE_ACTION
    /\ \/ /\ lastEvent.ev = "press"
          /\ lastEvent.mods = NoButton
          /\ BitOr(lastEvent.before, lastEvent.button) \notin DOMAIN mouseBinding_
       \/ /\ lastEvent.ev = "wheel"
          /\ lastEvent.mods = ShiftButton

\* The first grabber of MouseGrabberPool that is in `grabbing` and not in
\* `disabled`, NULL when there is none
FirstEnabledGrabbing(grabbing, disabled) ==
    LET ok == {i \in DOMAIN MouseGrabberPool :
                  /\ MouseGrabberPool[i] \in grabbing
                  /\ MouseGrabberPool[i] \notin disabled}
    IN  IF ok = {} THEN NULL
        ELSE MouseGrabberPool[CHOOSE i \in ok : \A j \in ok : i <= j]

\* The move of this step is handled as one without mouseGrabber(): it goes
\* to the camera frame or to the manipulatedFrame() in action, else the
\* pool is polled when the mouse tracking is on.
HandledWithoutGrabber ==
    IF action_[camFrame] # NO_MOUSE_ACTION
    THEN lastEvent'.receiver = camFrame /\ mouseGrabber_' = NULL
    ELSE IF manipulatedFrame_ # NULL /\ action_[manipulatedFrame_] # NO_MOUSE_ACTION
    THEN lastEvent'.receiver = manipulatedFrame_ /\ mouseGrabber_' = NULL
    ELSE /\ lastEvent'.receiver = NULL
         /\ mouseGrabber_' = IF mouseTracking
                             THEN FirstEnabledGrabbing(grabsMouse', disabledMouseGrabbers_)
                             ELSE NULL

\* C27: a move with an active grabber that still grabs the mouse goes to the
\* grabber only, which stays active; when the grabber no longer grabs the
\* mouse it is no longer the mouseGrabber() and the same move is handled as
\* one without grabber.
C27_GrabberMove ==
    [][ (lastEvent'.ev = "move" /\ mouseGrabber_ # NULL) =>
           IF mouseGrabber_ \in grabsMouse'
           THEN /\ lastEvent'.receiver = mouseGrabber_
                /\ UNCHANGED <<mouseGrabber_, mouseGrabberIsAManipulatedFrame_,
                               mouseGrabberIsAManipulatedCameraFrame_>>
           ELSE /\ mouseGrabber_' # mouseGrabber_
                /\ HandledWithoutGrabber ]_vars

\* A move that the grabber no longer grabbed went to the camera frame in
\* action, and another made the pool give the next grabber.
C27_Witness ==
    /\ lastEvent.ev = "move"
    /\ ~lastEvent.grabs
    /\ lastEvent.redraw
    /\ \/ lastEvent.receiver = camFrame /\ action_[camFrame] = ROTATE
       \/ lastEvent.receiver = NULL /\ mouseGrabber_ = mf /\ mf \in grabsMouse

\* A grabber that made this step's move the mouseGrabber() is the first of
\* the pool that is enabled and grabs the mouse.
PolledFirst ==
    (/\ lastEvent'.ev = "move"
     /\ mouseGrabber_ = NULL
     /\ \A f \in Frames : action_[f] = NO_MOUSE_ACTION
     /\ mouseTracking)
    => mouseGrabber_' = FirstEnabledGrabbing(grabsMouse', disabledMouseGrabbers_)

\* C28: a move without grabber, with no frame in action and the mouse
\* tracking on, makes the first grabber of the pool that is enabled and
\* grabs the mouse the mouseGrabber(), were a disabled one that grabs the
\* mouse before it; no step, move or setMouseGrabber(), makes a disabled
\* grabber the mouseGrabber().
C28_PollingSkipsDisabled ==
    [][ /\ PolledFirst
        /\ mouseGrabber_' # mouseGrabber_ => mouseGrabber_' \notin disabledMouseGrabbers_
      ]_vars

\* A move made mf the mouseGrabber() while mg, disabled, grabbed the mouse
\* too.
C28_Witness ==
    /\ lastEvent.ev = "move"
    /\ lastEvent.receiver = NULL
    /\ mouseGrabber_ = mf
    /\ mg \in grabsMouse
    /\ mg \in disabledMouseGrabbers_

(***************************************************************************)
(* The presses, releases and wheel turns of a viewer that never has a      *)
(* mouseGrabber(), with and without a manipulatedFrame().                  *)
(***************************************************************************)
NextIdle ==
    \/ MousePress
    \/ MouseRelease
    \/ MouseWheel
    \/ CallSetManipulatedFrame

SpecIdle == InitGrab /\ [][NextIdle]_vars

\* The event of this step started no action on any frame.
StartedNothing ==
    /\ lastEvent'.on = NULL
    /\ lastEvent'.started = NO_MOUSE_ACTION
    /\ action_' = action_

\* The state `state` has a FRAME binding in `map` and there is no
\* manipulatedFrame().
FrameBindingWithoutFrame(map, state) ==
    /\ state \in DOMAIN map
    /\ map[state].handler = FRAME
    /\ manipulatedFrame_ = NULL

\* C29: without mouseGrabber(), a press whose click key is not in
\* clickBinding_ and whose stateAfter is not in mouseBinding_, and a wheel
\* turn whose state is not in wheelBinding_, are ignored and start no action
\* on any frame; a FRAME binding that matches while there is no
\* manipulatedFrame() starts nothing either.
C29_UnboundIgnored ==
    [][ mouseGrabber_ = NULL =>
          /\ lastEvent'.ev = "press" =>
                /\ (/\ UserClickKey(lastEvent', FALSE) \notin DOMAIN clickBinding_
                    /\ BitOr(lastEvent'.mods, buttons') \notin DOMAIN mouseBinding_)
                   => lastEvent'.ignored /\ lastEvent'.click = NoClick /\ StartedNothing
                /\ FrameBindingWithoutFrame(mouseBinding_, BitOr(lastEvent'.mods, buttons'))
                   => StartedNothing
          /\ lastEvent'.ev = "wheel" =>
                /\ BitOr(lastEvent'.mods, buttons) \notin DOMAIN wheelBinding_
                   => lastEvent'.ignored /\ StartedNothing
                /\ FrameBindingWithoutFrame(wheelBinding_, BitOr(lastEvent'.mods, buttons))
                   => StartedNothing ]_vars

\* A press of the right button with the shift key, which nothing is bound
\* to, was ignored while the left button's drag of the camera went on.
C29_Witness ==
    /\ lastEvent.ev = "press"
    /\ lastEvent.ignored
    /\ lastEvent.button = RightButton
    /\ lastEvent.mods = ShiftButton
    /\ action_[camFrame] = ROTATE
    /\ mouseGrabber_ = NULL

(***************************************************************************)
(* The connections of the camera paths to updateGL(): record presses on    *)
(* the path keys of a viewer, setCamera() with its own camera and with     *)
(* others, and initFromDOMElement() on documents with a Camera section.    *)
(***************************************************************************)
\* A record press on ThisViewer, on a path index that the other camera or
\* the Camera section explored holds too: keyPressEvent(e)
RecordKeyPress ==
    /\ KeyPressPath
    /\ lastKey'.viewer = ThisViewer
    /\ lastKey'.state = "record"
    /\ lastKey'.index # ThisViewer

\* setCamera(camera) with a camera that has the zClippingCoefficient() of a
\* new one
SetCameraPaths ==
    /\ SetCamera
    /\ userZClippingCoefficient' = DefaultZClippingCoefficient

\* The documents with no section or with a Camera section only
CameraDocuments ==
    { Document(s) : s \in { << >>, <<CameraNode(MovedViewer)>>, <<PathsCameraNode>> } }

\* initFromDOMElement(element) on one of CameraDocuments
LoadCamera == InitFromDOMElementOf(CameraDocuments)

InitWiring == InitViewer(FreshViewer(FALSE, TRUE, NULL, QPoint(0, 0)), NoFile)

NextWiring == RecordKeyPress \/ SetCameraPaths \/ LoadCamera

SpecWiring == InitWiring /\ [][NextWiring]_vars

\* C30: for every path index of a viewer, interpolated() of the path is
\* connected to the updateGL() of the viewer once when the path exists and
\* not at all when it does not, whatever record presses, double presses,
\* setCamera() calls and loads of a Camera section were made.
C30_ConnectedWhenExists ==
    \A v \in Viewers, i \in PathIndexes :
        kfi_[v][i].connected = IF kfi_[v][i].numberOfKeyFrames > 0 THEN 1 ELSE 0

\* C30 (lemma): the record press that makes a path connects it, the double
\* press that deletes it leaves no connection, and setCamera() and the load
\* of a Camera section leave one connection to each path of camera().
C30_ConnectedByStep ==
    [][ /\ (nKeys' # nKeys /\ lastKey'.call = "addKeyFrameToPath")
           => kfi_'[lastKey'.viewer][lastKey'.index].connected = 1
        /\ (nKeys' # nKeys /\ lastKey'.call = "deletePath")
           => kfi_'[lastKey'.viewer][lastKey'.index].connected = 0
        /\ (nKeys' = nKeys /\ lastCall'.op \in {"setCamera", "initFromDOMElement"})
           => \A i \in PathIndexes :
                 kfi_'[ThisViewer][i].numberOfKeyFrames > 0
                 => kfi_'[ThisViewer][i].connected = 1 ]_vars

\* setCamera() or a load was made on a viewer with a recorded path, and
\* left a path that is connected.
C30_Witness ==
    /\ lastCall.op \in {"setCamera", "initFromDOMElement"}
    /\ pressedIds[ThisViewer] # {}
    /\ \E i \in PathIndexes : kfi_[ThisViewer][i].connected = 1

\* C35: the camera frame and the manipulatedFrame() are never both in
\* action, whatever presses, moves and releases were made.
C35_OneDragAtATime ==
    ~(action_[camFrame] # NO_MOUSE_ACTION /\ action_[mf] # NO_MOUSE_ACTION)

\* C35 (lemma): a press made while no button is held leaves at most one of
\* the two frames in action.
C35_OneDragFromIdle ==
    [][ (lastEvent'.ev = "press" /\ buttons = NoButton
         /\ \A f \in Frames : action_[f] = NO_MOUSE_ACTION)
        => ~(action_'[camFrame] # NO_MOUSE_ACTION /\ action_'[mf] # NO_MOUSE_ACTION) ]_vars

\* The camera frame or the manipulatedFrame() is in action.
FrameDragged ==
    \/ action_[camFrame] # NO_MOUSE_ACTION
    \/ manipulatedFrame_ # NULL /\ action_[manipulatedFrame_] # NO_MOUSE_ACTION

\* This step gave the viewer a mouseGrabber() it did not have.
GrabberActivated == mouseGrabber_' \notin {NULL, mouseGrabber_}

\* C36: a move made while the camera frame or the manipulatedFrame() is in
\* action makes no grabber the mouseGrabber(); a move makes one only when
\* the mouse tracking is on, neither frame is in action and the viewer has
\* no mouseGrabber(), or one that no longer grabs the mouse.
C36_NoPollingWhileDragged ==
    [][ lastEvent'.ev = "move" =>
          /\ FrameDragged => ~GrabberActivated
          /\ GrabberActivated =>
                /\ mouseTracking
                /\ ~FrameDragged
                /\ mouseGrabber_ = NULL \/ mouseGrabber_ \notin grabsMouse' ]_vars

\* A move went to the camera frame in action while the mouse tracking was
\* on and mf, enabled, grabbed the mouse: mf is not the mouseGrabber().
C36_Witness ==
    /\ lastEvent.ev = "move"
    /\ lastEvent.receiver = camFrame
    /\ action_[camFrame] # NO_MOUSE_ACTION
    /\ mouseTracking
    /\ mf \in grabsMouse
    /\ mf \notin disabledMouseGrabbers_
    /\ mouseGrabber_ = NULL

(***************************************************************************)
(* The press and the release of the left button on a viewer whose          *)
(* mouseGrabber() is set by the moves of the pointer only.                 *)
(***************************************************************************)
\* A press of the left button, with the MouseGrabber it is sent to:
\* mousePressEvent(e)
MousePressOn ==
    \E b \in GrabButtons, mods \in Modifiers, found \in BOOLEAN :
        /\ BitAnd(buttons, b) = 0
        /\ LET o == mousePressEvent(Cur, CurGrabber, manipulatedFrame_,
                                    BitOr(mods, buttons), BitOr(BitOr(mods, buttons), b),
                                    found)
           IN  /\ action_' = IF o.on # NULL THEN startAction(action_, o.on, o.started)
                             ELSE action_
               /\ lastEvent' = Event("press", mods, b, buttons, FALSE, o)
        /\ buttons' = BitOr(buttons, b)
        /\ pressedOn' = mouseGrabber_
        /\ UNCHANGED <<grabsMouse, sceneVars, bindingVars, selectVars, pathVars, persistVars, domVars,
                       userZClippingCoefficient, messageVars, textureVars, mouseGrabber_,
                       mouseGrabberIsAManipulatedFrame_,
                       mouseGrabberIsAManipulatedCameraFrame_, disabledMouseGrabbers_,
                       manipulatedFrame_, mouseTracking>>

\* The release of the button held, at a position where the grabbers of
\* `grabbing` grab the mouse: mouseReleaseEvent(e)
MouseReleaseFrom ==
    \E b \in GrabButtons, grabbing \in SUBSET Grabbers :
        /\ BitAnd(buttons, b) = b
        /\ LET o == mouseReleaseEvent(CurGrabber, action_, manipulatedFrame_)
           IN  /\ action_' = IF o.receiver \in Frames THEN endAction(action_, o.receiver)
                             ELSE action_
               /\ lastEvent' = Event("release", NoButton, b, buttons,
                                     mouseGrabber_ \in grabbing, o)
        /\ SetGrabber(GrabberAfterRelease(CurGrabber, grabbing, disabledMouseGrabbers_))
        /\ buttons' = BitAndNot(buttons, b)
        /\ pressedOn' = NULL
        /\ UNCHANGED <<grabsMouse, sceneVars, bindingVars, selectVars, pathVars, persistVars, domVars,
                       userZClippingCoefficient, messageVars, textureVars,
                       disabledMouseGrabbers_, manipulatedFrame_, mouseTracking>>

NextForward ==
    \/ MousePressOn
    \/ MouseReleaseFrom
    \/ MouseMoveTo
    \/ CallSetMouseGrabberIsEnabled
    \/ CallSetManipulatedFrame
    \/ CallSetMouseTracking

SpecForward == InitGrab /\ [][NextForward]_vars

\* C34: the release of a button whose press was sent to the mouseGrabber()
\* is sent to that same MouseGrabber, whatever the moves made in between.
C34_ReleaseFollowsPress ==
    [][ (lastEvent'.ev = "release" /\ pressedOn # NULL)
        => lastEvent'.receiver = pressedOn ]_vars

\* C34 (lemma): the release is sent to the grabber of the press when that
\* grabber is still the mouseGrabber(), that is when every move made since
\* the press found that it grabs the mouse.
C34_ReleaseWhileGrabbing ==
    [][ (lastEvent'.ev = "release" /\ pressedOn # NULL /\ mouseGrabber_ = pressedOn)
        => lastEvent'.receiver = pressedOn ]_vars

\* C34 (lemma): between the press and the release the grabber of the press
\* is the mouseGrabber() unless a move found that it no longer grabs the
\* mouse.
C34_DroppedByMoveOnly ==
    [][ (pressedOn # NULL /\ mouseGrabber_ = pressedOn /\ pressedOn' = pressedOn
         /\ mouseGrabber_' # pressedOn)
        => (lastEvent'.ev = "move" /\ pressedOn \notin grabsMouse') ]_vars

\* The key press of this step took the branch of the double press
\* ((elapsed < 250) && (index==previousPathId_)).
TreatedAsDoublePress ==
    \/ lastKey'.call \in {"resetPath", "deletePath"}
    \/ lastKey'.state = "record" /\ lastKey'.call = "none"

\* C37: a play or record press on a viewer is treated as a double press
\* exactly when that viewer's own previous play or record press was on the
\* same index and less than 250 ms earlier, whatever keys the other viewers
\* got in between.
C37_OwnPressesOnly ==
    [][ lastKey'.state \in {"play", "record"} =>
            (TreatedAsDoublePress <=> ClosePress) ]_vars

\* C37 (lemma): while the other viewers get no key, a press is treated as a
\* double press exactly when it closely follows the viewer's own press on
\* the same index.
C37_AloneOwnPressesOnly ==
    [][ (/\ lastKey'.state \in {"play", "record"}
         /\ \A w \in Viewers \ {lastKey'.viewer} : pressedIds[w] = {}
         /\ \A w \in Viewers \ {lastKey'.viewer} : lastPathPress[w].age = DoublePressDelay)
        => (TreatedAsDoublePress <=> ClosePress) ]_vars

(***************************************************************************)
(* initFromDOMElement() on a viewer whose camera mode the application      *)
(* toggles before and between the calls.                                   *)
(***************************************************************************)
\* The State sections explored: that of a viewer in revolve mode, that of a
\* viewer in fly mode and one without cameraMode attribute
StateSections ==
    { StateNode(FreshViewer(FALSE, TRUE, NULL, QPoint(0, 0))), StateNode(FlyViewer),
      Element("State", EmptyMap, << >>) }

\* The documents with one of these State sections, with or without a
\* Display section after or before it, and those without State section
StateDocuments ==
    { Document(s) : s \in { << >>, <<DisplayNode(ShowingViewer)>> }
                          \cup { <<e>> : e \in StateSections }
                          \cup { <<e, DisplayNode(ShowingViewer)>> : e \in StateSections }
                          \cup { <<DisplayNode(ShowingViewer), e>> : e \in StateSections } }

\* initFromDOMElement(element) on the viewer as it is, with one of
\* StateDocuments
LoadStateDocument ==
    /\ nCalls < MaxCalls
    /\ \E element \in StateDocuments :
          /\ Returns("initFromDOMElement", element, initFromDOMElement(This, element))
          /\ LoadsPaths(element.children)
    /\ nCalls' = nCalls + 1
    /\ UNCHANGED <<disk, loadFrame>>

InitMode ==
    \E fs \in BOOLEAN, updateGLOK \in BOOLEAN :
        InitViewer(FreshViewer(fs, updateGLOK, NULL, QPoint(0, 0)), NoFile)

NextMode == CallToggleCameraMode \/ LoadStateDocument

SpecMode == InitMode /\ [][NextMode]_vars

\* This step is initFromDOMElement() on a document with a State section.
LoadsStateSection ==
    /\ nCalls' # nCalls
    /\ lastCall'.op = "initFromDOMElement"
    /\ ~Lacks(lastCall'.doc, "State")

\* The State section of the document of this step says "fly".
SectionSaysFly ==
    attribute(Section(lastCall'.doc, "State"), "cameraMode", S_revolve) = S_fly

\* C40: after initFromDOMElement() on a document with a State section the
\* viewer is in fly mode when the cameraMode of the section is "fly" and in
\* revolve mode when it is "revolve" or absent, whatever its mode before.
C40_ModeOfSection ==
    [][ LoadsStateSection => (cameraIsInRevolveMode(Nxt) <=> ~SectionSaysFly) ]_vars

\* C40 (lemma): the viewer is in fly mode after the call exactly when the
\* section says "fly" or the viewer was in fly mode before.
C40_FlyStays ==
    [][ LoadsStateSection =>
          (cameraIsInRevolveMode(Nxt) <=> (~SectionSaysFly /\ cameraIsInRevolveMode(Cur)))
      ]_vars

(***************************************************************************)
(* setFullScreen() called by the application on a viewer whose window the  *)
(* user moves.                                                             *)
(***************************************************************************)
\* What the calls on the window, the timers and the drawing leave alone
coreFrame ==
    <<disk, lastOp, nOps, mouseGrabber_, mouseGrabberIsAManipulatedFrame_,
      mouseGrabberIsAManipulatedCameraFrame_, disabledMouseGrabbers_, action_, buttons,
      mouseTracking, lastEvent, selectVars, pathVars, domVars, userZClippingCoefficient,
      messageVars, textureVars, pointerVars>>

\* The positions of the top level widget explored
WindowPositions == {QPoint(0, 0), QPoint(10, -20), QPoint(7, 9)}

\* pos() of the window when this step makes it leave the normal state, the
\* one recorded before otherwise
NormalPosAfter ==
    IF ~qglviewer.tlw.isFull /\ qglviewer'.tlw.isFull THEN <<qglviewer.tlw.pos>>
    ELSE normalPos

\* setFullScreen(fullScreen)
CallSetFullScreen ==
    /\ nCalls < MaxCalls
    /\ \E fullScreen \in BOOLEAN :
          Returns("setFullScreen", NullElement,
                  Ret(setFullScreen(This, fullScreen), 0, fullScreen))
    /\ nCalls' = nCalls + 1
    /\ normalPos' = NormalPosAfter
    /\ UNCHANGED <<coreFrame, animVars, hintVars, glVars>>

\* The user moves the window, in its normal state: QWidget::move()
MoveWindow ==
    /\ ~qglviewer.tlw.isFull
    /\ \E pos \in WindowPositions \ {qglviewer.tlw.pos} :
          qglviewer' = [qglviewer EXCEPT !.tlw.pos = pos]
    /\ lastCall' = NoCall
    /\ UNCHANGED <<bindingVars, manipulatedFrame_, nCalls, normalPos, coreFrame, animVars,
                   hintVars, glVars>>

\* The viewers: shown or not yet, prevPos_ never set, in a window of their
\* own
InitWindowed ==
    \E updateGLOK \in BOOLEAN, prevPos \in PrevPositions, pos \in WindowPositions :
        InitViewer([FreshViewer(FALSE, updateGLOK, NULL, prevPos) EXCEPT
                       !.tlw = Widget(800, 600, pos, FALSE)], NoFile)

NextWindow == CallSetFullScreen \/ MoveWindow

SpecWindow == InitWindowed /\ [][NextWindow]_vars

\* This step is setFullScreen(fullScreen).
IsSetFullScreen(fullScreen) ==
    /\ nCalls' # nCalls
    /\ lastCall'.op = "setFullScreen"
    /\ lastCall'.value = fullScreen

\* C38: after setFullScreen(false) on a window that was shown full screen,
\* the window is at the position it had when it last left the normal state,
\* whatever setFullScreen() calls were made.
C38_BackWhereItWas ==
    [][ (IsSetFullScreen(FALSE) /\ normalPos # << >>)
        => qglviewer'.tlw.pos = normalPos[1] ]_vars

\* C38 (lemma): setFullScreen(true) on a viewer that is shown keeps pos() in
\* prevPos_, setFullScreen(false) moves the window to prevPos_, and a call
\* on a viewer that is not yet shown changes fullScreen_ only.
C38_PrevPos ==
    [][ /\ (IsSetFullScreen(TRUE) /\ qglviewer.updateGLOK_)
           => qglviewer'.prevPos_ = qglviewer.tlw.pos
        /\ (IsSetFullScreen(FALSE) /\ qglviewer.updateGLOK_)
           => qglviewer'.tlw.pos = qglviewer.prevPos_
        /\ (lastCall'.op = "setFullScreen" /\ nCalls' # nCalls /\ ~qglviewer.updateGLOK_)
           => qglviewer' = [qglviewer EXCEPT !.fullScreen_ = lastCall'.value] ]_vars

(***************************************************************************)
(* The animation: startAnimation() and stopAnimation() called by the       *)
(* application, and the events of the timers that startTimer() made.       *)
(***************************************************************************)
\* What the animation calls and the timer events leave alone
viewerFrame ==
    <<mouseBinding_, wheelBinding_, clickBinding_, manipulatedFrame_, qglviewer, lastCall,
      coreFrame>>

\* QObject::startTimer(): an id that no running timer of the object has
NewTimerId(running) ==
    CHOOSE id \in 1..(Cardinality(running) + 1) :
        /\ \A t \in running : t.id # id
        /\ \A less \in 1..(id - 1) : \E t \in running : t.id = less

\* startAnimation()
StartAnimation ==
    /\ nCalls < MaxCalls
    /\ animationTimerId_' = NewTimerId(timers)
    /\ timers' = timers \cup {QTimerOf(NewTimerId(timers), AnimationPeriod)}
    /\ animationStarted_' = TRUE
    /\ animated' = 0
    /\ nCalls' = nCalls + 1
    /\ UNCHANGED <<viewerFrame, windowVars, hintVars, glVars, sinceAnimate>>

\* stopAnimation()
StopAnimation ==
    /\ nCalls < MaxCalls
    /\ animationStarted_' = FALSE
    /\ timers' = {t \in timers : t.id # animationTimerId_}
    /\ animated' = 0
    /\ nCalls' = nCalls + 1
    /\ UNCHANGED <<viewerFrame, windowVars, hintVars, glVars, animationTimerId_,
                   sinceAnimate>>

\* 10 ms pass: the timers that are due send their event, timerEvent(e),
\* and start again.
TimerEvents ==
    /\ timers # {}
    /\ timers' = {QTimerOf(t.id, IF t.left = 10 THEN AnimationPeriod ELSE t.left - 10) :
                     t \in timers}
    /\ animated' = IF animationStarted_
                   THEN Cardinality({t \in timers : t.left = 10}) ELSE 0
    /\ sinceAnimate' = IF animationStarted_ /\ \E t \in timers : t.left = 10 THEN 0
                       ELSE IF sinceAnimate + 10 >= AnimationPeriod THEN AnimationPeriod
                       ELSE sinceAnimate + 10
    /\ UNCHANGED <<viewerFrame, windowVars, hintVars, glVars, nCalls, animationStarted_,
                   animationTimerId_>>

InitAnimated == InitViewer(FreshViewer(FALSE, TRUE, NULL, QPoint(0, 0)), NoFile)

NextAnimation == StartAnimation \/ StopAnimation \/ TimerEvents

SpecAnimation == InitAnimated /\ [][NextAnimation]_vars

\* C39: whatever startAnimation() and stopAnimation() calls were made, at
\* most one timer of the viewer runs, none when animationIsStarted() is
\* false, and animate() is called only while the animation is started and
\* at most once per animationPeriod().
C39_OneAnimationTimer ==
    [][ /\ Cardinality(timers') <= 1
        /\ ~animationStarted_' => timers' = {}
        /\ animated' > 0 =>
              /\ animationStarted_'
              /\ animated' = 1
              /\ sinceAnimate + 10 >= AnimationPeriod ]_vars

\* C39 (lemma): animate() is called only while the animation is started,
\* the timer of the last startAnimation() runs exactly while the animation
\* is started, and startAnimation() on a stopped animation whose timers are
\* all killed leaves one timer.
C39_LastTimerOnly ==
    [][ /\ animated' > 0 => animationStarted_'
        /\ animationStarted_' <=> \E t \in timers' : t.id = animationTimerId_'
        /\ (~animationStarted_ /\ timers = {}) => Cardinality(timers') <= 1 ]_vars

(***************************************************************************)
(* The visual hints: setVisualHintsMask() called by the click actions and  *)
(* by the application, the time that passes and the single shot timers     *)
(* that call resetVisualHints().                                           *)
(***************************************************************************)
\* The mask of the revolveAroundPoint() hint
RevolveAroundPointHint == 1

\* setVisualHintsMask(mask, delay): the mask
setVisualHintsMask(visualHint, mask) == BitOr(visualHint, mask)

\* resetVisualHints()
resetVisualHints(visualHint) == 0

\* setVisualHintsMask(1, delay)
SetVisualHintsMask ==
    /\ nCalls < MaxCalls
    /\ \E delay \in Delays :
          hintTimers' = hintTimers \cup {QTimerOf(NewTimerId(hintTimers), delay)}
    /\ visualHint_' = setVisualHintsMask(visualHint_, RevolveAroundPointHint)
    /\ nCalls' = nCalls + 1
    /\ UNCHANGED <<viewerFrame, windowVars, animVars, glVars>>

\* One unit of time passes while no single shot timer is due
HintTick ==
    /\ hintTimers # {}
    /\ \A t \in hintTimers : t.left > 0
    /\ hintTimers' = {QTimerOf(t.id, t.left - 1) : t \in hintTimers}
    /\ UNCHANGED <<viewerFrame, windowVars, animVars, glVars, nCalls, visualHint_>>

\* A single shot timer is due: it calls resetVisualHints()
ResetVisualHints ==
    /\ \E t \in hintTimers :
          /\ t.left = 0
          /\ hintTimers' = hintTimers \ {t}
    /\ visualHint_' = resetVisualHints(visualHint_)
    /\ UNCHANGED <<viewerFrame, windowVars, animVars, glVars, nCalls>>

NextHints == SetVisualHintsMask \/ HintTick \/ ResetVisualHints

SpecHints == InitAnimated /\ [][NextHints]_vars

\* The revolveAroundPoint() hint is drawn.
HintIsSet == BitAnd(visualHint_, RevolveAroundPointHint) # 0

\* C33: the hint is set as long as the delay of one of the
\* setVisualHintsMask() calls has not passed, whatever timers of earlier
\* calls fire, and it is no longer set once the last timer has fired.
C33_HintExpiry ==
    /\ (\E t \in hintTimers : t.left > 0) => HintIsSet
    /\ hintTimers = {} => ~HintIsSet

\* C33 (lemma): the hint is set by setVisualHintsMask(), is cleared by
\* no step but a timer that fires, and is not set once the last timer has
\* fired.
C33_ClearedByTimer ==
    [][ /\ nCalls' # nCalls => HintIsSet'
        /\ (HintIsSet /\ ~HintIsSet') => Cardinality(hintTimers') < Cardinality(hintTimers)
        /\ hintTimers' = {} => ~HintIsSet' ]_vars

(***************************************************************************)
(* paintGL(): the OpenGL calls of postDraw() and of what it draws, on the  *)
(* OpenGL state that draw() leaves.                                        *)
(***************************************************************************)
\* An OpenGL call: the function, its argument and the value it sets
GLCall(f, a, v) == [f |-> f, a |-> a, v |-> v]

glMatrixMode(mode) == <<GLCall("glMatrixMode", mode, "")>>
glPushMatrix == <<GLCall("glPushMatrix", "", "")>>
glPopMatrix == <<GLCall("glPopMatrix", "", "")>>
glLoadIdentity == <<GLCall("glLoadMatrix", "identity", "")>>
\* glLoadMatrix, glOrtho, glTranslate, glScale, glRotate, glMultMatrix: the
\* current matrix becomes another one
glLoadMatrix(matrix) == <<GLCall("glLoadMatrix", matrix, "")>>
glPushAttrib == <<GLCall("glPushAttrib", "GL_ALL_ATTRIB_BITS", "")>>
glPopAttrib == <<GLCall("glPopAttrib", "", "")>>
glEnable(cap) == <<GLCall("glEnable", cap, "")>>
glDisable(cap) == <<GLCall("glDisable", cap, "")>>
\* glLineWidth, glColor, glMaterialfv, glTexEnvi, glBlendFunc, glBindTexture
glSet(name, value) == <<GLCall("glSet", name, value)>>

\* What one OpenGL call makes of the state g; glPopMatrix and glPopAttrib on
\* a stack that cannot be popped set an error and change nothing
glApply(g, c) ==
    CASE c.f = "glMatrixMode" -> [g EXCEPT !.matrixMode = c.a]
      [] c.f = "glPushMatrix" -> [g EXCEPT !.stack[g.matrixMode] = <<Head(@)>> \o @]
      [] c.f = "glPopMatrix" ->
            [g EXCEPT !.stack[g.matrixMode] = IF Len(@) > 1 THEN Tail(@) ELSE @]
      [] c.f = "glLoadMatrix" -> [g EXCEPT !.stack[g.matrixMode] = <<c.a>> \o Tail(@)]
      [] c.f = "glPushAttrib" ->
            [g EXCEPT !.saved = <<[attrib |-> g.attrib, matrixMode |-> g.matrixMode]>> \o @]
      [] c.f = "glPopAttrib" ->
            IF g.saved = << >> THEN g
            ELSE [g EXCEPT !.attrib = Head(g.saved).attrib,
                           !.matrixMode = Head(g.saved).matrixMode,
                           !.saved = Tail(@)]
      [] c.f = "glEnable" -> [g EXCEPT !.attrib.enabled = @ \cup {c.a}]
      [] c.f = "glDisable" -> [g EXCEPT !.attrib.enabled = @ \ {c.a}]
      [] c.f = "glSet" -> [g EXCEPT !.attrib.values[c.a] = c.v]

\* The state after the calls from..to of calls, made in their order on g
RECURSIVE glRun(_, _, _, _)
glRun(g, calls, from, to) ==
    IF from > to THEN g
    ELSE IF from = to THEN glApply(g, calls[from])
    ELSE CHOOSE after \in { glRun(half, calls, (from + to) \div 2 + 1, to) :
                              half \in {glRun(g, calls, from, (from + to) \div 2)} } : TRUE

\* The state after the calls, made in their order on the state g
glExec(g, calls) == glRun(g, calls, 1, Len(calls))

\* startScreenCoordinatesSystem(upward)
startScreenCoordinatesSystem(upward) ==
    glMatrixMode(GL_PROJECTION) \o glPushMatrix \o glLoadIdentity
    \o glLoadMatrix(IF upward THEN "glOrtho upward" ELSE "glOrtho")
    \o glMatrixMode(GL_MODELVIEW) \o glPushMatrix \o glLoadIdentity

\* stopScreenCoordinatesSystem()
stopScreenCoordinatesSystem ==
    glMatrixMode(GL_PROJECTION) \o glPopMatrix \o glMatrixMode(GL_MODELVIEW) \o glPopMatrix

\* drawText(x, y, text), in the build that uses GLUT and in the one that
\* uses QGLWidget::renderText(), which leaves the OpenGL state
drawText(glut) ==
    IF glut
    THEN startScreenCoordinatesSystem(FALSE) \o glPushAttrib \o glDisable("GL_LIGHTING")
         \o glSet("blendFunc", "GL_SRC_ALPHA") \o glEnable("GL_BLEND")
         \o glDisable("GL_DEPTH_TEST") \o glEnable("GL_LINE_SMOOTH")
         \o glSet("lineWidth", "1.0") \o glLoadMatrix("text") \o glPopAttrib
         \o stopScreenCoordinatesSystem
    ELSE << >>

\* The lines that drawVisualHints() draws in screen coordinates
HintLines(lineWidth) ==
    startScreenCoordinatesSystem(FALSE) \o glDisable("GL_LIGHTING")
    \o glDisable("GL_DEPTH_TEST") \o glSet("lineWidth", lineWidth)
    \o glEnable("GL_DEPTH_TEST") \o stopScreenCoordinatesSystem

\* drawVisualHints()
drawVisualHints(visualHint, act, manipulatedFrame) ==
    (IF BitAnd(visualHint, 1) # 0 THEN HintLines("3.0") ELSE << >>)
    \o (IF \/ act[camFrame] = SCREEN_ROTATE
           \/ manipulatedFrame # NULL /\ act[manipulatedFrame] = SCREEN_ROTATE
        THEN HintLines("3.0") ELSE << >>)
    \o (IF act[camFrame] = ZOOM_ON_REGION THEN HintLines("2.0") ELSE << >>)

\* drawGrid(size)
drawGrid == glDisable("GL_LIGHTING") \o glSet("lineWidth", "1.0")

\* drawAxis(length); the two glTranslatef of drawArrow() undo each other
drawAxis ==
    glDisable("GL_LIGHTING") \o glSet("lineWidth", "2.0") \o glEnable("GL_LIGHTING")
    \o glDisable("GL_COLOR_MATERIAL") \o glSet("material", "blue")
    \o glSet("material", "red") \o glPushMatrix \o glLoadMatrix("rotated") \o glPopMatrix
    \o glSet("material", "green") \o glPushMatrix \o glLoadMatrix("rotated") \o glPopMatrix
    \o glEnable("GL_COLOR_MATERIAL")

\* Camera::drawAllPaths(): the paths are drawn in the world coordinates,
\* each key frame in a matrix of its own
drawAllPaths ==
    glDisable("GL_LIGHTING") \o glSet("lineWidth", "2.0")
    \o glPushMatrix \o glLoadMatrix("key frame") \o glPopMatrix

\* The OpenGL calls of copyBufferToTexture(): the texture is bound
copyBufferToTextureCalls == glSet("texBinding", "bufferTextureId_")

\* displayZBuffer()
displayZBuffer ==
    glMatrixMode(GL_TEXTURE) \o glLoadIdentity \o startScreenCoordinatesSystem(TRUE)
    \o glSet("texEnv", "GL_REPLACE") \o glDisable("GL_TEXTURE_GEN_S")
    \o glDisable("GL_TEXTURE_GEN_T") \o glDisable("GL_TEXTURE_GEN_R")
    \o glDisable("GL_TEXTURE_GEN_Q") \o glEnable("GL_TEXTURE_2D")
    \o glDisable("GL_TEXTURE_2D") \o stopScreenCoordinatesSystem

\* postDraw(): the OpenGL calls it makes, on viewer V that draws the hints
\* of visualHint and of the actions act on the camera frame and on
\* manipulatedFrame, and the message when displayed
postDraw(V, manipulatedFrame, visualHint, act, displayed, glut) ==
    glMatrixMode(GL_MODELVIEW) \o glPushMatrix \o glLoadMatrix("camera")
    \o glPushAttrib
    \o glDisable("GL_TEXTURE_1D") \o glDisable("GL_TEXTURE_2D") \o glDisable("GL_TEXTURE_3D")
    \o glDisable("GL_TEXTURE_GEN_Q") \o glDisable("GL_TEXTURE_GEN_R")
    \o glDisable("GL_TEXTURE_GEN_S") \o glDisable("GL_TEXTURE_GEN_T")
    \o glEnable("GL_RESCALE_NORMAL") \o glDisable("GL_COLOR_MATERIAL")
    \o glSet("color", "foregroundColor")
    \o (IF V.cameraIsEdited_ THEN drawAllPaths ELSE << >>)
    \o drawVisualHints(visualHint, act, manipulatedFrame)
    \o (IF V.gridIsDrawn THEN drawGrid ELSE << >>)
    \o (IF V.axisIsDrawn THEN drawAxis ELSE << >>)
    \o glSet("material", "foregroundColor") \o glDisable("GL_LIGHTING")
    \o (IF V.FPSIsDisplayed THEN drawText(glut) ELSE << >>)
    \o (IF displayed THEN drawText(glut) ELSE << >>)
    \o (IF V.zBufferIsDisplayed THEN copyBufferToTextureCalls \o displayZBuffer ELSE << >>)
    \o glPopAttrib \o glPopMatrix

\* The OpenGL states that draw() leaves: any matrix mode, matrices of its
\* own, with or without a texture matrix, some capabilities enabled
DrawnStates ==
    { GLState(mode,
              [m \in MatrixModes |->
                  IF m = GL_TEXTURE THEN <<texture>> ELSE <<"draw() " \o m>>],
              Attrib(enabled, [n \in AttribNames |-> "draw()"]), << >>) :
        mode \in MatrixModes, texture \in {"identity", "draw() GL_TEXTURE"},
        enabled \in { {"GL_LIGHTING", "GL_DEPTH_TEST"},
                      {"GL_DEPTH_TEST", "GL_TEXTURE_2D", "GL_COLOR_MATERIAL"} } }

\* paintGL(): draw(), that leaves one of DrawnStates, then postDraw(); glut
\* is the build of drawText()
PaintGL ==
    /\ \E drawn \in DrawnStates, glut \in BOOLEAN :
          /\ glEntry' = drawn
          /\ gl' = glExec(drawn, postDraw(qglviewer, manipulatedFrame_, visualHint_, action_,
                                       displayMessage_, glut))
    /\ bufferTexture' = IF qglviewer.zBufferIsDisplayed
                        THEN copyBufferToTexture(bufferTexture, widget,
                                                 "GL_DEPTH_COMPONENT", GL_NONE)
                        ELSE bufferTexture
    /\ qglviewer' = [qglviewer EXCEPT !.updateGLOK_ = TRUE]
    /\ lastEvent' = NoEvent
    /\ UNCHANGED <<bindingVars, mouseGrabber_, mouseGrabberIsAManipulatedFrame_,
                   mouseGrabberIsAManipulatedCameraFrame_, disabledMouseGrabbers_,
                   manipulatedFrame_, action_, buttons, mouseTracking, selectVars,
                   pathVars, disk, lastCall, nCalls, domVars, userZClippingCoefficient,
                   messageVars, widget, pointerVars, windowVars, animVars, hintVars>>

\* The application displays a message for MaxDelay
PaintMessage ==
    /\ DisplayMessage
    /\ lastDisplay'.message = "saved"
    /\ lastDisplay'.delay = MaxDelay

\* The flags of what postDraw() draws: axis, grid, frame rate, z-buffer,
\* camera paths
DrawFlags ==
    { <<FALSE, FALSE, FALSE, FALSE, FALSE>>, <<TRUE, TRUE, TRUE, FALSE, TRUE>>,
      <<FALSE, FALSE, FALSE, TRUE, FALSE>>, <<TRUE, FALSE, TRUE, TRUE, FALSE>> }

\* The viewers that draw, with a manipulated frame
InitPaint ==
    \E flags \in DrawFlags, frame \in {mf} :
        InitViewer([FreshViewer(FALSE, TRUE, frame, QPoint(0, 0)) EXCEPT
                       !.axisIsDrawn = flags[1], !.gridIsDrawn = flags[2],
                       !.FPSIsDisplayed = flags[3], !.zBufferIsDisplayed = flags[4],
                       !.cameraIsEdited_ = flags[5]], NoFile)

\* The buttons and state keys of the drags that draw a hint with the default
\* bindings, and of the presses that lead to them
HintButtons ==
    { LeftButton, LeftButton + MidButton, ShiftButton + LeftButton,
      ControlButton + LeftButton, ControlButton + LeftButton + MidButton }

\* A press that holds one of HintButtons: mousePressEvent(e)
PaintPress ==
    /\ MousePress
    /\ BitOr(lastEvent'.mods, buttons') \in HintButtons

\* A release away from every mouse grabber: mouseReleaseEvent(e)
PaintRelease ==
    /\ MouseRelease
    /\ ~lastEvent'.grabs
    /\ mouseGrabber_' = NULL

\* The first call of setVisualHintsMask(1), with the shortest delay
PaintHint ==
    /\ SetVisualHintsMask
    /\ nCalls = 0
    /\ \A t \in hintTimers' : t.left = 1

NextPaint ==
    \/ PaintGL
    \/ PaintMessage
    \/ PaintHint
    \/ PaintPress
    \/ PaintRelease

SpecPaint == InitPaint /\ [][NextPaint]_vars

\* C32: after postDraw() the OpenGL state is the one postDraw() was called
\* in: the attributes, the matrix mode, the depth of the three matrix stacks
\* and of the attribute stack, and the matrices.
C32_StateRestored == gl = glEntry

\* C32 (lemma): after postDraw() the attributes, the depth of the stacks,
\* the GL_MODELVIEW and GL_PROJECTION matrices are those of the entry; the
\* matrix mode is GL_MODELVIEW, and the GL_TEXTURE matrix is the identity
\* when the z-buffer is displayed and that of the entry otherwise.
C32_RestoredButModeAndTexture ==
    /\ gl.attrib = glEntry.attrib
    /\ gl.saved = glEntry.saved
    /\ \A m \in MatrixModes : Len(gl.stack[m]) = Len(glEntry.stack[m])
    /\ gl.stack[GL_MODELVIEW] = glEntry.stack[GL_MODELVIEW]
    /\ gl.stack[GL_PROJECTION] = glEntry.stack[GL_PROJECTION]
    /\ gl.matrixMode = GL_MODELVIEW
    /\ gl.stack[GL_TEXTURE] =
          IF qglviewer.zBufferIsDisplayed THEN <<"identity">>
          ELSE glEntry.stack[GL_TEXTURE]

(***************************************************************************)
(* The status messages of the record presses: keyPressEvent(e) on the path *)
(* keys of one viewer, with displayMessage() and its timer.                *)
(***************************************************************************)
\* The delay of displayMessage(message) in ms
DefaultMessageDelay == 2000

\* The four messages of a record press on the path index
PositionSaved(index) == "Position " \o ToString(index) \o " saved"
PathPositionSaved(index, nbKF) ==
    "Path " \o ToString(index) \o ", position " \o ToString(nbKF) \o " saved"
PathDeleted(index) == "Path " \o ToString(index) \o " deleted"
PositionDeleted(index) == "Position " \o ToString(index) \o " deleted"

\* The displayMessage() calls of keyPressEvent(e), state == addKFStateKey_:
\* the message of the call, or no call
RecordMessage(P, index, elapsed) ==
    IF IsDoublePress(elapsed, index, P.previousPathId)
    THEN IF P.kfi[index].numberOfKeyFrames > 0
         THEN <<IF P.kfi[index].numberOfKeyFrames > 1 THEN PathDeleted(index)
                ELSE PositionDeleted(index)>>
         ELSE << >>
    ELSE <<IF addKeyFrameToPath(P.kfi, index)[index].numberOfKeyFrames = 1
           THEN PositionSaved(index)
           ELSE PathPositionSaved(index,
                                  addKeyFrameToPath(P.kfi, index)[index].numberOfKeyFrames)>>

\* The messages of a key press on the path index
keyPressMessage(P, index, state, elapsed) ==
    IF state = "record" THEN RecordMessage(P, index, elapsed) ELSE << >>

\* The message state dt ms later, the timer not being due meanwhile, and
\* after the displayMessage() calls of shown
MessageAfter(M, dt, shown) ==
    IF shown = << >>
    THEN [M EXCEPT !.messageTimer_ = IF @.active THEN Timer(TRUE, @.left - dt) ELSE @]
    ELSE displayMessage(M, shown[1], DefaultMessageDelay)

\* What a key press with its message leaves alone
statusFrame ==
    <<bindingVars, mouseVars, selectVars, persistVars, domVars, userZClippingCoefficient,
      textureVars, pointerVars, sceneVars>>

\* The last displayMessage() call dt ms later and after the calls of shown
DisplayAfter(D, dt, shown) ==
    IF shown # << >> THEN Display(shown[1], DefaultMessageDelay, 0)
    ELSE IF D = NoDisplay THEN D
    ELSE [D EXCEPT !.since = IF @ + dt > D.delay THEN D.delay ELSE @ + dt]

\* keyPressEvent(e) on ThisViewer for the key of the path index, dt ms after
\* the previous key press: r is what the press does, shown what it displays
PressWithMessage(index, state, dt, r, shown) ==
    /\ previousPathId_' = [previousPathId_ EXCEPT ![ThisViewer] = r.P.previousPathId]
    /\ kfi_' = [kfi_ EXCEPT ![ThisViewer] = r.P.kfi]
    /\ doublePress' = 0
    /\ lastPathPress' =
          [w \in Viewers |->
             IF w = ThisViewer
             THEN PathPress(index, state, r.call = "addKeyFrameToPath", 0)
             ELSE Aged(lastPathPress[w], dt)]
    /\ lastKey' = KeyPress(ThisViewer, index, state, dt, r.call)
    /\ pressedIds' = [pressedIds EXCEPT ![ThisViewer] = @ \cup {index}]
    /\ SetMessage(MessageAfter(ThisMessage, dt, shown))
    /\ lastDisplay' = DisplayAfter(lastDisplay, dt, shown)

\* A play or record press of a path key on ThisViewer, dt ms after the
\* previous key press, with the message it displays: keyPressEvent(e)
KeyPressStatus ==
    /\ nKeys < MaxKeys
    /\ \E index \in PathIndexes, state \in {"play", "record"}, dt \in KeyDelays :
          /\ messageTimer_.active => messageTimer_.left > dt
          /\ PressWithMessage(index, state, dt,
                              keyPressEvent(PathState(previousPathId_[ThisViewer],
                                                      kfi_[ThisViewer]),
                                            index, state, Elapsed(doublePress, dt)),
                              keyPressMessage(PathState(previousPathId_[ThisViewer],
                                                        kfi_[ThisViewer]),
                                              index, state, Elapsed(doublePress, dt)))
    /\ nKeys' = nKeys + 1
    /\ UNCHANGED statusFrame

\* No key is pressed until the timer is due: timeout() calls hideMessage()
MessageTimeout ==
    /\ messageTimer_.active
    /\ SetMessage(hideMessage(ThisMessage))
    /\ lastDisplay' = DisplayAfter(lastDisplay, messageTimer_.left, << >>)
    /\ doublePress' = Elapsed(doublePress, messageTimer_.left)
    /\ lastPathPress' = [w \in Viewers |-> Aged(lastPathPress[w], messageTimer_.left)]
    /\ lastKey' = NoKeyPress
    /\ UNCHANGED <<previousPathId_, kfi_, pressedIds, nKeys, statusFrame>>

NextStatus == KeyPressStatus \/ MessageTimeout

SpecStatus == InitPaths /\ [][NextStatus]_vars

\* The key press of this step is a record press
IsRecordPress == nKeys' # nKeys /\ lastKey'.state = "record"

\* The messages that name the path index and say that a position was saved
\* or that the path or the position was deleted
StatusMessages(index) ==
    {PositionSaved(index), PathDeleted(index), PositionDeleted(index)}
    \cup {PathPositionSaved(index, nbKF) : nbKF \in 2..MaxKeys}

\* This step has displayed one of the messages of the path index
Reports(index) ==
    /\ displayMessage_'
    /\ message_' \in StatusMessages(index)
    /\ messageTimer_' = Timer(TRUE, DefaultMessageDelay)

\* C31: every record press of a path key ends with a status message
\* displayed that names the path index and says whether a position was saved
\* or the path or position was deleted, the double press on an index whose
\* path does not exist included.
C31_EveryOutcomeReported == [][IsRecordPress => Reports(lastKey'.index)]_vars

\* C31 (lemma): a record press reports what it did when it saved a position
\* or deleted a path; the double press on an index whose path does not exist
\* displays no message: the message and whether it is displayed stay, and
\* the timer runs on.
C31_ReportedWhenDone ==
    [][IsRecordPress =>
         IF lastKey'.call = "none"
         THEN /\ message_' = message_
              /\ displayMessage_' = displayMessage_
              /\ messageTimer_'.active = messageTimer_.active
              /\ messageTimer_.active => messageTimer_'.left < messageTimer_.left
         ELSE Reports(lastKey'.index)]_vars

====
